---- MODULE Spec2Model ----
(***************************************************************************)
(* chetter-app: the PR reference lifecycle engine (src/src/lib.rs) and the *)
(* backend client it drives (src/src/github.rs).                           *)
(*                                                                         *)
(* Rust strings are modelled as sequences of one-character strings, so     *)
(* that format!, ends_with, split, replace and parse are computed the way  *)
(* the code computes them.  Commit hashes are opaque: they are modelled as *)
(* atomic strings.                                                         *)
(***************************************************************************)
EXTENDS Integers, Sequences, FiniteSets, TLC

VARIABLES store, task, nops, nfail, tasks, request, closing

vars == <<store, task, nops, nfail, tasks, request, closing>>

\* The state of the service around the lifecycle operations: the background
\* task tracker, the webhook delivery being dispatched, State::close.
service == <<tasks, request, closing>>

---------------------------------------------------------------------------
(* Bounds of the model. *)

\* Number of lifecycle operations started in one behaviour.
MaxOps == 2

\* Number of backend requests that fail for a transport/auth reason in one
\* behaviour (requests the backend rejects by its own rules are not counted).
MaxFail == 2

\* Largest number of versioned snapshots of the long-lived PR that the
\* batch-deletion specification starts from.
MaxSnap == 100

\* Largest version number the properties look for in a ref name.
MaxParsed == 120

\* Number of required parts a delivery lacks.
MaxMissing == 1

---------------------------------------------------------------------------
(* Strings *)

DigitChars == <<"0", "1", "2", "3", "4", "5", "6", "7", "8", "9">>

IsDigit(c) == \E d \in 1..10 : DigitChars[d] = c

DigitVal(c) == (CHOOSE d \in 1..10 : DigitChars[d] = c) - 1

\* Display of an unsigned integer, as format!("{}", n) prints it.
RECURSIVE FormatNat(_)
FormatNat(n) ==
    IF n < 10 THEN <<DigitChars[n + 1]>>
    ELSE FormatNat(n \div 10) \o <<DigitChars[(n % 10) + 1]>>

\* str::starts_with
StartsWith(s, p) ==
    /\ Len(p) <= Len(s)
    /\ SubSeq(s, 1, Len(p)) = p

\* str::ends_with
EndsWith(s, p) ==
    /\ Len(p) <= Len(s)
    /\ SubSeq(s, Len(s) - Len(p) + 1, Len(s)) = p

\* str::replace(pat, ""): every non-overlapping occurrence of pat, scanning
\* from the left, is removed.
RECURSIVE RemoveAll(_, _)
RemoveAll(s, pat) ==
    IF s = <<>> THEN <<>>
    ELSE IF StartsWith(s, pat)
         THEN RemoveAll(SubSeq(s, Len(pat) + 1, Len(s)), pat)
         ELSE <<Head(s)>> \o RemoveAll(Tail(s), pat)

\* s.split(c).next_back(): the text after the last c, all of s when s has no c.
SplitLast(s, c) ==
    LET at == {i \in 1..Len(s) : s[i] = c}
    IN  IF at = {} THEN s
        ELSE SubSeq(s, (CHOOSE i \in at : \A j \in at : j <= i) + 1, Len(s))

\* Largest value of a u32.  The value itself exceeds the integers of the model
\* checker, so the overflow test of the parse compares digit strings.
U32MaxDigits == <<"4", "2", "9", "4", "9", "6", "7", "2", "9", "5">>

RECURSIVE StripZeros(_)
StripZeros(s) ==
    IF Len(s) > 1 /\ Head(s) = "0" THEN StripZeros(Tail(s)) ELSE s

\* Lexicographic s <= t for digit strings of equal length.
RECURSIVE DigitsLeq(_, _)
DigitsLeq(s, t) ==
    IF s = <<>> THEN TRUE
    ELSE IF DigitVal(Head(s)) < DigitVal(Head(t)) THEN TRUE
    ELSE IF DigitVal(Head(s)) > DigitVal(Head(t)) THEN FALSE
    ELSE DigitsLeq(Tail(s), Tail(t))

FitsU32(digits) ==
    LET d == StripZeros(digits)
    IN  \/ Len(d) < Len(U32MaxDigits)
        \/ Len(d) = Len(U32MaxDigits) /\ DigitsLeq(d, U32MaxDigits)

RECURSIVE DigitsValue(_, _)
DigitsValue(s, acc) ==
    IF s = <<>> THEN acc ELSE DigitsValue(Tail(s), (acc * 10) + DigitVal(Head(s)))

\* The absent value of an Option.
None == -1

\* str::parse::<u32>(): an optional '+', then one or more decimal digits whose
\* value fits 32 bits; None for everything else.
ParseU32(s) ==
    LET digits == IF s # <<>> /\ Head(s) = "+" THEN Tail(s) ELSE s
    IN  IF digits = <<>> THEN None
        ELSE IF \E i \in 1..Len(digits) : ~IsDigit(digits[i]) THEN None
        ELSE IF ~FitsU32(digits) THEN None
        ELSE DigitsValue(digits, 0)

RECURSIVE SetToSeq(_)
SetToSeq(S) ==
    IF S = {} THEN <<>>
    ELSE LET x == CHOOSE y \in S : TRUE
         IN  <<x>> \o SetToSeq(S \ {x})

Range(s) == {s[i] : i \in 1..Len(s)}

---------------------------------------------------------------------------
(* String constants of the program *)

REF_NS == <<"r", "e", "f", "s", "/", "h", "e", "a", "d", "s", "/", "p", "r">>

Slash == <<"/">>
Dash == <<"-">>
S_head == <<"h", "e", "a", "d">>
S_head_base == <<"h", "e", "a", "d", "-", "b", "a", "s", "e">>
S_base_suffix == <<"-", "b", "a", "s", "e">>
S_v == <<"v">>
S_v1 == <<"v", "1">>
S_empty == <<>>

---------------------------------------------------------------------------
(* Inputs *)

\* Pull request numbers.  1 is a proper prefix of 12.
PRs == {1, 12}

\* The commits of the k-th event: the head (or reviewed) commit and the base
\* commit of the pull request at that moment.  Every event brings new commits.
EventOf(k) == [sha |-> <<"head", k>>, base |-> <<"base", k>>]

\* No commit: the sha field of a call or task that has none.
NoSha == <<"none", 0>>

\* Reviewer logins.  "me" is a proper prefix of "megan".
Reviewers == { <<"m", "e">>, <<"m", "e", "g", "a", "n">> }

TaskIds == {1}

---------------------------------------------------------------------------
(* Ref and the backend (GitHub) behind RepositoryClient *)

\* struct Ref
Ref(full_name, sha, node_id) ==
    [full_name |-> full_name, sha |-> sha, node_id |-> node_id]

\* The full ref that create_ref and update_ref address for ref_name.
FullRef(ref_name) == REF_NS \o Slash \o ref_name

\* The ref store of the repository: the refs in the order the backend lists
\* them, each a record of its full name and the commit it points at.
StoreNames(st) == {st[k].name : k \in 1..Len(st)}

\* The ref store after a successful creation or forced update of key.
Put(st, key, sha) ==
    IF key \in StoreNames(st)
    THEN [k \in 1..Len(st) |-> IF st[k].name = key THEN [name |-> key, sha |-> sha] ELSE st[k]]
    ELSE Append(st, [name |-> key, sha |-> sha])

\* The ref store without the refs in keys.
Remove(st, keys) ==
    LET keep(r) == r.name \notin keys
    IN  SelectSeq(st, keep)

\* Mutant of create_ref_accepts: the backend takes a create for an existing
\* ref as a forced update.
create_ref_accepts_existing(st, ref_name) == TRUE

\* RepositoryClient::create_ref: the backend creates the ref unless a ref of
\* that name exists.
create_ref_accepts(st, ref_name) == FullRef(ref_name) \notin StoreNames(st)

create_ref_effect(st, ref_name, sha) == Put(st, FullRef(ref_name), sha)

\* RepositoryClient::update_ref: the backend force-moves an existing ref.
update_ref_accepts(st, ref_name) == FullRef(ref_name) \in StoreNames(st)

update_ref_effect(st, ref_name, sha) == Put(st, FullRef(ref_name), sha)

\* Mutant of MatchingBackend: the refs whose full name ends with the path.
MatchingBackendSuffix(st, path) ==
    LET hit(r) == EndsWith(r.name, path)
    IN  SelectSeq(st, hit)

\* The refs the git/matching-refs endpoint returns for a path: the refs whose
\* full name starts with "refs/" followed by the path.
MatchingBackend(st, path) ==
    LET hit(r) == StartsWith(r.name, <<"r", "e", "f", "s", "/">> \o path)
    IN  SelectSeq(st, hit)

\* Mutant of matching_refs: the namespace is not stripped from the names.
matching_refs_no_strip(st, search) ==
    LET short_ns == SubSeq(REF_NS, 6, Len(REF_NS))
        results  == MatchingBackend(st, short_ns \o Slash \o search)
    IN  [k \in 1..Len(results) |->
            Ref(results[k].name, results[k].sha, results[k].name)]

\* RepositoryClient::matching_refs, on success.
matching_refs(st, search) ==
    LET short_ns == SubSeq(REF_NS, 6, Len(REF_NS))
        results  == MatchingBackend(st, short_ns \o Slash \o search)
    IN  [k \in 1..Len(results) |->
            Ref(RemoveAll(results[k].name, REF_NS \o Slash), results[k].sha,
                results[k].name)]

\* Chunk size of the bulk delete.
ChunkSize == 100

\* Mutant of Chunks: chunks_exact(n), which leaves out the shorter remainder.
RECURSIVE ChunksExact(_, _)
ChunksExact(s, n) ==
    IF Len(s) < n THEN <<>>
    ELSE <<SubSeq(s, 1, n)>> \o ChunksExact(SubSeq(s, n + 1, Len(s)), n)

\* Mutant of Chunks: all the refs go into one request.
ChunksSingle(s, n) == IF s = <<>> THEN <<>> ELSE <<s>>

\* slice::chunks(n): consecutive chunks of n elements, the last one shorter.
RECURSIVE Chunks(_, _)
Chunks(s, n) ==
    IF s = <<>> THEN <<>>
    ELSE IF Len(s) <= n THEN <<s>>
    ELSE <<SubSeq(s, 1, n)>> \o Chunks(SubSeq(s, n + 1, Len(s)), n)

\* The chunks delete_refs sends, one request each.
delete_refs_chunks(refs) == Chunks(refs, ChunkSize)

\* Mutant of delete_chunk_effect: the mutation names the first ref only.
delete_chunk_first_only(st, chunk) == Remove(st, {chunk[1].node_id})

\* The store after a bulk-delete mutation that the backend carried out.
delete_chunk_effect(st, chunk) == Remove(st, {r.node_id : r \in Range(chunk)})

---------------------------------------------------------------------------
(* Errors and results *)

\* ChetterError::Octocrab / ChetterError::GithubGraphqlError, tagged with the
\* position of the failed call in the operation's sequence of calls.
Error(kind, at) == [kind |-> kind, at |-> at]

NoError == Error("none", 0)

Pending == [status |-> "pending", err |-> NoError]

\* Ok(())
Ok == [status |-> "Ok", err |-> NoError]

\* Err(e)
Err(e) == [status |-> "Err", err |-> e]

\* Mutant of pop_result: the first collected error is returned
\* (errors.into_iter().next() in place of errors.pop()).
pop_result_first(errors) ==
    IF errors = <<>> THEN Ok ELSE Err(errors[1])

\* Mutant of pop_result: the collected errors are dropped.
pop_result_ok(errors) == Ok

\* match errors.pop() { None => Ok(()), Some(e) => Err(e) }
pop_result(errors) ==
    IF errors = <<>> THEN Ok ELSE Err(errors[Len(errors)])

---------------------------------------------------------------------------
(* Tasks: one invocation of a lifecycle operation each *)

\* An entry of the log of backend calls of an invocation.  name and sha are
\* the arguments of create_ref / update_ref, name the search of matching_refs,
\* refs the argument of delete_refs or the chunk of one bulk-delete request.
Call(fn, name, sha, refs, ok) ==
    [fn |-> fn, name |-> name, sha |-> sha, refs |-> refs, ok |-> ok]

Idle ==
    [pc |-> "idle", op |-> "none", pr |-> 0, reviewer |-> <<>>, sha |-> NoSha,
     base |-> NoSha, refs |-> <<>>, i |-> 0, errors |-> <<>>, calls |-> <<>>,
     result |-> Pending, store0 |-> <<>>]

\* The locals of a fresh invocation; store0 remembers the ref store at entry.
Fresh(op, pc, pr, reviewer, sha, base) ==
    [pc |-> pc, op |-> op, pr |-> pr, reviewer |-> reviewer, sha |-> sha,
     base |-> base, refs |-> <<>>, i |-> 1, errors |-> <<>>, calls |-> <<>>,
     result |-> Pending, store0 |-> store]

CanStart(t) ==
    /\ task[t].pc \in {"idle", "done"}
    /\ nops < MaxOps

---------------------------------------------------------------------------
(* The calls each lifecycle operation plans *)

\* Mutant of open_pr_call: every ref, also the -base companions, points at the
\* head commit.
open_pr_call_all_head(pr, sha, base, i) ==
    LET ref_name == <<S_head, S_v1>>[((i - 1) \div 2) + 1]
        pair     == << <<S_empty, sha>>, <<S_base_suffix, sha>> >>[((i - 1) % 2) + 1]
    IN  [fn |-> "create_ref",
         name |-> FormatNat(pr) \o Slash \o ref_name \o pair[1],
         sha |-> pair[2]]

\* Mutant of open_pr_call: the refs are force-updated, as for a reopened pull
\* request whose refs are still there.
open_pr_call_update(pr, sha, base, i) ==
    LET ref_name == <<S_head, S_v1>>[((i - 1) \div 2) + 1]
        pair     == << <<S_empty, sha>>, <<S_base_suffix, base>> >>[((i - 1) % 2) + 1]
    IN  [fn |-> "update_ref",
         name |-> FormatNat(pr) \o Slash \o ref_name \o pair[1],
         sha |-> pair[2]]

\* for ref_name in ["head", "v1"] { for (suffix, target) in [("", sha), ("-base", base)] {
\*     client.create_ref(&format!("{}/{}{}", pr, ref_name, suffix), target)
open_pr_call(pr, sha, base, i) ==
    LET ref_name == <<S_head, S_v1>>[((i - 1) \div 2) + 1]
        pair     == << <<S_empty, sha>>, <<S_base_suffix, base>> >>[((i - 1) % 2) + 1]
    IN  [fn |-> "create_ref",
         name |-> FormatNat(pr) \o Slash \o ref_name \o pair[1],
         sha |-> pair[2]]

\* Mutant of last_version: min() in place of max().
last_version_min(refs) ==
    LET parsed == {ParseU32(SplitLast(refs[k].full_name, "v")) : k \in 1..Len(refs)}
                      \ {None}
    IN  IF parsed = {} THEN 0
        ELSE CHOOSE m \in parsed : \A n \in parsed : m <= n

\* refs.iter().filter_map(|t| t.full_name.split('v').next_back()?.parse::<u32>().ok())
\*     .max().unwrap_or(0)
last_version(refs) ==
    LET parsed == {ParseU32(SplitLast(refs[k].full_name, "v")) : k \in 1..Len(refs)}
                      \ {None}
    IN  IF parsed = {} THEN 0
        ELSE CHOOSE m \in parsed : \A n \in parsed : n <= m

\* Mutant of synchronize_next_ref: the latest version is used again.
synchronize_next_ref_same(refs) ==
    IF refs = <<>> THEN 1 ELSE last_version(refs)

\* let next_ref = if refs.is_empty() { 1 } else { last_version + 1 }  (synchronize_pr)
synchronize_next_ref(refs) ==
    IF refs = <<>> THEN 1 ELSE last_version(refs) + 1

\* Mutant of synchronize_pr_call: the existence test looks for the bare suffix
\* ("head", "head-base"), as bookmark_pr does, in place of the full name.
synchronize_pr_call_suffix(refs, pr, sha, base, i) ==
    IF i <= 2
    THEN LET pair == << <<S_head, sha>>, <<S_head_base, base>> >>[i]
             name == FormatNat(pr) \o Slash \o pair[1]
         IN  [fn |-> IF \E k \in 1..Len(refs) : EndsWith(refs[k].full_name, pair[1])
                     THEN "update_ref" ELSE "create_ref",
              name |-> name,
              sha |-> pair[2]]
    ELSE LET pair == << <<S_empty, sha>>, <<S_base_suffix, base>> >>[i - 2]
         IN  [fn |-> "create_ref",
              name |-> FormatNat(pr) \o Slash \o S_v
                           \o FormatNat(synchronize_next_ref(refs)) \o pair[1],
              sha |-> pair[2]]

\* Mutant of synchronize_pr_call: head and head-base are always updated.
synchronize_pr_call_always_update(refs, pr, sha, base, i) ==
    IF i <= 2
    THEN LET pair == << <<S_head, sha>>, <<S_head_base, base>> >>[i]
         IN  [fn |-> "update_ref",
              name |-> FormatNat(pr) \o Slash \o pair[1],
              sha |-> pair[2]]
    ELSE LET pair == << <<S_empty, sha>>, <<S_base_suffix, base>> >>[i - 2]
         IN  [fn |-> "create_ref",
              name |-> FormatNat(pr) \o Slash \o S_v
                           \o FormatNat(synchronize_next_ref(refs)) \o pair[1],
              sha |-> pair[2]]

\* The i-th ref mutation of synchronize_pr: head, head-base (update when a
\* fetched ref ends with the name, create otherwise), then the versioned pair.
synchronize_pr_call(refs, pr, sha, base, i) ==
    IF i <= 2
    THEN LET pair == << <<S_head, sha>>, <<S_head_base, base>> >>[i]
             name == FormatNat(pr) \o Slash \o pair[1]
         IN  [fn |-> IF \E k \in 1..Len(refs) : EndsWith(refs[k].full_name, name)
                     THEN "update_ref" ELSE "create_ref",
              name |-> name,
              sha |-> pair[2]]
    ELSE LET pair == << <<S_empty, sha>>, <<S_base_suffix, base>> >>[i - 2]
         IN  [fn |-> "create_ref",
              name |-> FormatNat(pr) \o Slash \o S_v
                           \o FormatNat(synchronize_next_ref(refs)) \o pair[1],
              sha |-> pair[2]]

\* Mutant of bookmark_next_ref: the latest version is used again.
bookmark_next_ref_same(refs) ==
    IF refs = <<>> THEN 1 ELSE last_version(refs)

\* let next_ref = if refs.is_empty() { 1 } else { last_version + 1 }  (bookmark_pr)
bookmark_next_ref(refs) ==
    IF refs = <<>> THEN 1 ELSE last_version(refs) + 1

\* The i-th ref mutation of bookmark_pr: {reviewer}-head, {reviewer}-head-base
\* (update when a fetched ref ends with the suffix, create otherwise), then the
\* versioned pair.
bookmark_pr_call(refs, pr, reviewer, sha, base, i) ==
    IF i <= 2
    THEN LET pair == << <<S_head, sha>>, <<S_head_base, base>> >>[i]
             name == FormatNat(pr) \o Slash \o reviewer \o Dash \o pair[1]
         IN  [fn |-> IF \E k \in 1..Len(refs) : EndsWith(refs[k].full_name, pair[1])
                     THEN "update_ref" ELSE "create_ref",
              name |-> name,
              sha |-> pair[2]]
    ELSE LET pair == << <<S_empty, sha>>, <<S_base_suffix, base>> >>[i - 2]
         IN  [fn |-> "create_ref",
              name |-> FormatNat(pr) \o Slash \o reviewer \o Dash \o S_v
                           \o FormatNat(bookmark_next_ref(refs)) \o pair[1],
              sha |-> pair[2]]

\* Mutant of pr_search: the search lacks the closing slash.
pr_search_no_slash(pr) == FormatNat(pr)

\* format!("{}/", pr): the search of synchronize_pr and close_pr.
pr_search(pr) == FormatNat(pr) \o Slash

\* format!("{}/{}", pr, reviewer): the search of bookmark_pr.
bookmark_search(pr, reviewer) == FormatNat(pr) \o Slash \o reviewer

---------------------------------------------------------------------------
(* The service: State, its task tracker, webhook deliveries *)

\* TaskTracker::new(): open, tracking nothing.  The tasks it tracks are the
\* spawned invocations that have not returned, which the model reads off
\* task; the tracker itself records whether close() has been called.
TaskTracker_new == [closed |-> FALSE]

\* No webhook delivery has been dispatched.
NoRequest ==
    [pc |-> "idle", event |-> [kind |-> "none"], client |-> FALSE,
     response |-> Pending, spawned |-> 0, after_close |-> FALSE]

\* State::close has not been called.
NotClosing == [pc |-> "none", outstanding |-> {}, timeout |-> FALSE, log |-> <<>>]

---------------------------------------------------------------------------
(* Steps: every backend call is an await point of the async operation *)

\* Mutant of Mutate: the first failed call ends the operation with its error
\* (a `?` in place of errors.push).
MutateShortCircuit(t, c) ==
    \E injected \in BOOLEAN :
        LET accepts == IF c.fn = "create_ref"
                       THEN create_ref_accepts(store, c.name)
                       ELSE update_ref_accepts(store, c.name)
            ok      == accepts /\ ~injected
            errors1 == IF ok THEN task[t].errors
                       ELSE Append(task[t].errors,
                                   Error("Octocrab", Len(task[t].calls) + 1))
            last    == task[t].i = 4 \/ ~ok
        IN  /\ injected => (accepts /\ nfail < MaxFail)
            /\ store' = IF ~ok THEN store
                        ELSE IF c.fn = "create_ref"
                             THEN create_ref_effect(store, c.name, c.sha)
                             ELSE update_ref_effect(store, c.name, c.sha)
            /\ task' = [task EXCEPT ![t] =
                   [@ EXCEPT !.calls  = Append(@, Call(c.fn, c.name, c.sha, <<>>, ok)),
                             !.errors = errors1,
                             !.i      = @ + 1,
                             !.pc     = IF last THEN "done" ELSE @,
                             !.result = IF last THEN pop_result(errors1) ELSE @]]
            /\ nfail' = IF injected THEN nfail + 1 ELSE nfail
            /\ UNCHANGED <<nops, service>>

\* Mutant of Mutate: a failed call is issued again.
MutateRetry(t, c) ==
    \E injected \in BOOLEAN :
        LET accepts == IF c.fn = "create_ref"
                       THEN create_ref_accepts(store, c.name)
                       ELSE update_ref_accepts(store, c.name)
            ok      == accepts /\ ~injected
            retry   == injected
            errors1 == IF ok \/ retry THEN task[t].errors
                       ELSE Append(task[t].errors,
                                   Error("Octocrab", Len(task[t].calls) + 1))
            last    == task[t].i = 4 /\ ~retry
        IN  /\ injected => (accepts /\ nfail < MaxFail)
            /\ store' = IF ~ok THEN store
                        ELSE IF c.fn = "create_ref"
                             THEN create_ref_effect(store, c.name, c.sha)
                             ELSE update_ref_effect(store, c.name, c.sha)
            /\ task' = [task EXCEPT ![t] =
                   [@ EXCEPT !.calls  = Append(@, Call(c.fn, c.name, c.sha, <<>>, ok)),
                             !.errors = errors1,
                             !.i      = IF retry THEN @ ELSE @ + 1,
                             !.pc     = IF last THEN "done" ELSE @,
                             !.result = IF last THEN pop_result(errors1) ELSE @]]
            /\ nfail' = IF injected THEN nfail + 1 ELSE nfail
            /\ UNCHANGED <<nops, service>>

\* One create_ref / update_ref call c of task t, the fourth of which is
\* followed by the return of the operation.  The request fails when the
\* backend rejects it, or for a transport reason; a failed request changes
\* no ref.
Mutate(t, c) ==
    \E injected \in BOOLEAN :
        LET accepts == IF c.fn = "create_ref"
                       THEN create_ref_accepts(store, c.name)
                       ELSE update_ref_accepts(store, c.name)
            ok      == accepts /\ ~injected
            errors1 == IF ok THEN task[t].errors
                       ELSE Append(task[t].errors,
                                   Error("Octocrab", Len(task[t].calls) + 1))
            last    == task[t].i = 4
        IN  /\ injected => (accepts /\ nfail < MaxFail)
            /\ store' = IF ~ok THEN store
                        ELSE IF c.fn = "create_ref"
                             THEN create_ref_effect(store, c.name, c.sha)
                             ELSE update_ref_effect(store, c.name, c.sha)
            /\ task' = [task EXCEPT ![t] =
                   [@ EXCEPT !.calls  = Append(@, Call(c.fn, c.name, c.sha, <<>>, ok)),
                             !.errors = errors1,
                             !.i      = @ + 1,
                             !.pc     = IF last THEN "done" ELSE @,
                             !.result = IF last THEN pop_result(errors1) ELSE @]]
            /\ nfail' = IF injected THEN nfail + 1 ELSE nfail
            /\ UNCHANGED <<nops, service>>

\* Mutant of Fetch: a failed fetch is taken for an empty result
\* (unwrap_or_default in place of `?`).
FetchIgnoreError(t, search, next_pc) ==
    \E injected \in BOOLEAN :
        /\ injected => nfail < MaxFail
        /\ task' = [task EXCEPT ![t] =
               [@ EXCEPT !.calls = Append(@, Call("matching_refs", search, NoSha, <<>>, ~injected)),
                         !.refs  = IF injected THEN <<>> ELSE matching_refs(store, search),
                         !.pc    = next_pc]]
        /\ nfail' = IF injected THEN nfail + 1 ELSE nfail
        /\ UNCHANGED <<store, nops, service>>

\* The matching_refs call that opens synchronize_pr, bookmark_pr and close_pr.
\* On failure the `?` returns the error at once.  On success the task goes on
\* at next_pc with the fetched refs.
Fetch(t, search, next_pc) ==
    \E injected \in BOOLEAN :
        /\ injected => nfail < MaxFail
        /\ task' = [task EXCEPT ![t] =
               IF injected
               THEN [@ EXCEPT !.calls  = Append(@, Call("matching_refs", search, NoSha, <<>>, FALSE)),
                              !.pc     = "done",
                              !.result = Err(Error("Octocrab", Len(task[t].calls) + 1))]
               ELSE [@ EXCEPT !.calls = Append(@, Call("matching_refs", search, NoSha, <<>>, TRUE)),
                              !.refs  = matching_refs(store, search),
                              !.pc    = next_pc]]
        /\ nfail' = IF injected THEN nfail + 1 ELSE nfail
        /\ UNCHANGED <<store, nops, service>>

\* open_pr is called with the payload of an Opened or Reopened event.
call_open_pr(t) ==
    \E pr \in PRs, ev \in {EventOf(nops + 1)} :
        /\ CanStart(t)
        /\ task' = [task EXCEPT ![t] = Fresh("open_pr", "open_pr", pr, <<>>, ev.sha, ev.base)]
        /\ nops' = nops + 1
        /\ UNCHANGED <<store, nfail, service>>

open_pr_create(t) ==
    /\ task[t].pc = "open_pr"
    /\ Mutate(t, open_pr_call(task[t].pr, task[t].sha, task[t].base, task[t].i))

\* synchronize_pr is called with the payload of a Synchronize event.
call_synchronize_pr(t) ==
    \E pr \in PRs, ev \in {EventOf(nops + 1)} :
        /\ CanStart(t)
        /\ task' = [task EXCEPT ![t] =
               Fresh("synchronize_pr", "synchronize_pr_fetch", pr, <<>>, ev.sha, ev.base)]
        /\ nops' = nops + 1
        /\ UNCHANGED <<store, nfail, service>>

synchronize_pr_fetch(t) ==
    /\ task[t].pc = "synchronize_pr_fetch"
    /\ Fetch(t, pr_search(task[t].pr), "synchronize_pr")

synchronize_pr_mutate(t) ==
    /\ task[t].pc = "synchronize_pr"
    /\ Mutate(t, synchronize_pr_call(task[t].refs, task[t].pr, task[t].sha,
                                     task[t].base, task[t].i))

\* bookmark_pr is called with the payload of an Approved or ChangesRequested
\* review.
call_bookmark_pr(t) ==
    \E pr \in PRs, reviewer \in Reviewers, ev \in {EventOf(nops + 1)} :
        /\ CanStart(t)
        /\ task' = [task EXCEPT ![t] =
               Fresh("bookmark_pr", "bookmark_pr_fetch", pr, reviewer, ev.sha, ev.base)]
        /\ nops' = nops + 1
        /\ UNCHANGED <<store, nfail, service>>

bookmark_pr_fetch(t) ==
    /\ task[t].pc = "bookmark_pr_fetch"
    /\ Fetch(t, bookmark_search(task[t].pr, task[t].reviewer), "bookmark_pr")

bookmark_pr_mutate(t) ==
    /\ task[t].pc = "bookmark_pr"
    /\ Mutate(t, bookmark_pr_call(task[t].refs, task[t].pr, task[t].reviewer,
                                  task[t].sha, task[t].base, task[t].i))

\* close_pr is called with the number of a Closed event.
call_close_pr(t) ==
    \E pr \in PRs :
        /\ CanStart(t)
        /\ task' = [task EXCEPT ![t] = Fresh("close_pr", "close_pr_fetch", pr, <<>>, NoSha, NoSha)]
        /\ nops' = nops + 1
        /\ UNCHANGED <<store, nfail, service>>

\* let refs = client.matching_refs(..).await?; then delete_refs(&refs) is
\* entered.  With no ref to delete, delete_refs sends nothing and close_pr
\* returns Ok(()) without another await.
close_pr_fetch(t) ==
    /\ task[t].pc = "close_pr_fetch"
    /\ \E injected \in BOOLEAN :
        /\ injected => nfail < MaxFail
        /\ LET search == pr_search(task[t].pr)
               refs   == matching_refs(store, search)
           IN  task' = [task EXCEPT ![t] =
                   IF injected
                   THEN [@ EXCEPT !.calls  = Append(@, Call("matching_refs", search, NoSha, <<>>, FALSE)),
                                  !.pc     = "done",
                                  !.result = Err(Error("Octocrab", Len(task[t].calls) + 1))]
                   ELSE [@ EXCEPT !.calls  = @ \o << Call("matching_refs", search, NoSha, <<>>, TRUE),
                                                     Call("delete_refs", <<>>, NoSha, refs, TRUE) >>,
                                  !.refs   = refs,
                                  !.i      = 1,
                                  !.pc     = IF delete_refs_chunks(refs) = <<>>
                                             THEN "done" ELSE "delete_refs",
                                  !.result = IF delete_refs_chunks(refs) = <<>>
                                             THEN pop_result(<<>>) ELSE @]]
        /\ nfail' = IF injected THEN nfail + 1 ELSE nfail
        /\ UNCHANGED <<store, nops, service>>

\* One bulk-delete request of delete_refs: the i-th chunk.  The request fails
\* in transport (Err(error)), or is answered with GraphQL errors, or deletes
\* the refs of the chunk.  A ref of the chunk that no longer exists makes the
\* backend answer with errors after deleting the others.  After the last chunk
\* delete_refs returns, and close_pr with it.
delete_refs_request(t) ==
    /\ task[t].pc = "delete_refs"
    /\ \E outcome \in {"deleted", "Octocrab", "GithubGraphqlError"} :
        LET chunks  == delete_refs_chunks(task[t].refs)
            chunk   == chunks[task[t].i]
            present == \A k \in 1..Len(chunk) : chunk[k].node_id \in StoreNames(store)
            ok      == outcome = "deleted"
            errors1 == IF ok THEN task[t].errors
                       ELSE Append(task[t].errors, Error(outcome, Len(task[t].calls) + 1))
            last    == task[t].i = Len(chunks)
        IN  /\ ok => present
            /\ (~ok /\ present) => nfail < MaxFail
            /\ (~present) => outcome = "GithubGraphqlError"
            /\ store' = IF ok \/ ~present THEN delete_chunk_effect(store, chunk) ELSE store
            /\ task' = [task EXCEPT ![t] =
                   [@ EXCEPT !.calls  = Append(@, Call("graphql", <<>>, NoSha, chunk, ok)),
                             !.errors = errors1,
                             !.i      = @ + 1,
                             !.pc     = IF last THEN "done" ELSE @,
                             !.result = IF last THEN pop_result(errors1) ELSE @]]
            /\ nfail' = IF ~ok /\ present THEN nfail + 1 ELSE nfail
            /\ UNCHANGED <<nops, service>>

---------------------------------------------------------------------------
(* Specification: the operations run one after the other *)

Init ==
    /\ store = <<>>
    /\ task = [t \in TaskIds |-> Idle]
    /\ nops = 0
    /\ nfail = 0
    /\ tasks = TaskTracker_new
    /\ request = NoRequest
    /\ closing = NotClosing

Next ==
    \E t \in TaskIds :
        \/ call_open_pr(t)
        \/ open_pr_create(t)
        \/ call_synchronize_pr(t)
        \/ synchronize_pr_fetch(t)
        \/ synchronize_pr_mutate(t)
        \/ call_bookmark_pr(t)
        \/ bookmark_pr_fetch(t)
        \/ bookmark_pr_mutate(t)
        \/ call_close_pr(t)
        \/ close_pr_fetch(t)
        \/ delete_refs_request(t)

Spec == Init /\ [][Next]_vars

---------------------------------------------------------------------------
(* Specification SpecFix: one synchronize or bookmark on a repository that  *)
(* already holds refs, among them refs that other writers left behind.      *)

\* The ref names of the fixtures of test_synchronize_pr and test_bookmark_pr,
\* and the names of the version example, for the pull request FixturePR.
FixtureNames ==
    { <<"h", "e", "a", "d">>,
      <<"h", "e", "a", "d", "-", "b", "a", "s", "e">>,
      <<"v", "1">>,
      <<"v", "4">>,
      <<"v", "4", "-", "b", "a", "s", "e">>,
      <<"r", "e", "v", "i", "e", "w", "e", "r", "-", "v", "2">>,
      <<"n", "i", "c", "k", "-", "v", "9", "9", "-", "h", "e", "a", "d">>,
      <<"j", "u", "n", "k">>,
      <<"m", "e", "-", "h", "e", "a", "d">>,
      <<"m", "e", "-", "v", "3">>,
      <<"m", "e", "-", "v", "9", "9", "-", "j", "u", "n", "k">> }

FixturePR == CHOOSE pr \in PRs : \A q \in PRs : q <= pr

\* The commit every ref of a fixture points at ("_" in the tests).
FixtureSha == <<"old", 0>>

\* The ref store holding the refs of the fixture pull request listed in names.
FixtureStore(names) ==
    [k \in 1..Len(names) |->
        [name |-> FullRef(FormatNat(FixturePR) \o Slash \o names[k]), sha |-> FixtureSha]]

InitFix ==
    /\ \E names \in SUBSET FixtureNames : store = FixtureStore(SetToSeq(names))
    /\ task = [t \in TaskIds |-> Idle]
    /\ nops = MaxOps - 1
    /\ nfail = MaxFail
    /\ tasks = TaskTracker_new
    /\ request = NoRequest
    /\ closing = NotClosing

NextFix ==
    \E t \in TaskIds :
        \/ call_synchronize_pr(t)
        \/ synchronize_pr_fetch(t)
        \/ synchronize_pr_mutate(t)
        \/ call_bookmark_pr(t)
        \/ bookmark_pr_fetch(t)
        \/ bookmark_pr_mutate(t)

SpecFix == InitFix /\ [][NextFix]_vars

---------------------------------------------------------------------------
(* Specification SpecDelete: close_pr on a long-lived pull request, which   *)
(* has been opened and then synchronized m - 1 times.                       *)

\* The ref names of the pull request after open_pr and m - 1 synchronize_pr.
SnapshotNames(m) ==
    IF m = 0 THEN <<>>
    ELSE <<S_head, S_head_base>>
         \o [k \in 1..(2 * m) |->
                S_v \o FormatNat((k + 1) \div 2)
                    \o (IF k % 2 = 1 THEN S_empty ELSE S_base_suffix)]

InitDelete ==
    /\ \E m \in 0..MaxSnap : store = FixtureStore(SnapshotNames(m))
    /\ task = [t \in TaskIds |-> Idle]
    /\ nops = MaxOps - 1
    /\ nfail = 0
    /\ tasks = TaskTracker_new
    /\ request = NoRequest
    /\ closing = NotClosing

NextDelete ==
    \E t \in TaskIds :
        \/ call_close_pr(t)
        \/ close_pr_fetch(t)
        \/ delete_refs_request(t)

SpecDelete == InitDelete /\ [][NextDelete]_vars

---------------------------------------------------------------------------
(* Specification SpecErrors: one operation, in which several calls may     *)
(* fail, on an empty repository, on a freshly opened pull request or on a  *)
(* long-lived one whose refs take several bulk-delete requests.            *)

InitErrors ==
    /\ \E m \in {0, 1, MaxSnap} : store = FixtureStore(SnapshotNames(m))
    /\ task = [t \in TaskIds |-> Idle]
    /\ nops = MaxOps - 1
    /\ nfail = 0
    /\ tasks = TaskTracker_new
    /\ request = NoRequest
    /\ closing = NotClosing

SpecErrors == InitErrors /\ [][Next]_vars

---------------------------------------------------------------------------
(* The service: webhook_dispatcher, on_pull_request, on_pull_request_review *)
(* and State::close.                                                        *)

\* The task slots of the invocations spawned on the tracker.
BackgroundIds == {2}

\* The invocations the tracker tracks: spawned and not yet returned
\* (TaskTracker::len, TaskTracker::is_empty).
Tracked == {b \in BackgroundIds : task[b].pc \notin {"idle", "done"}}

\* The parts of a delivery that the handlers require and that may be absent:
\* .repository, .repository.owner, .installation, .review.user and
\* .review.commit_id.
Fields == {"repository", "owner", "installation", "user", "commit_id"}

MissingSets == {m \in SUBSET Fields : Cardinality(m) <= MaxMissing}

\* The k-th delivery of a behaviour: a pull-request event, a
\* pull-request-review event or an event of another kind.  "Edited" stands
\* for the pull-request actions other than the four the engine handles,
\* "Commented" and "None" for the review states it ignores.
Events(k) ==
    {[kind |-> "PullRequest", action |-> a, state |-> "None", number |-> pr,
      login |-> <<>>, missing |-> m, sha |-> EventOf(k).sha, base |-> EventOf(k).base] :
        a \in {"Opened", "Reopened", "Synchronize", "Closed", "Edited"},
        pr \in {FixturePR},
        m \in {x \in MissingSets : x \subseteq {"repository", "owner", "installation"}}}
    \cup
    {[kind |-> "PullRequestReview", action |-> "Submitted", state |-> st, number |-> pr,
      login |-> rv, missing |-> m, sha |-> EventOf(k).sha, base |-> EventOf(k).base] :
        st \in {"Approved", "ChangesRequested", "Commented", "None"},
        pr \in {FixturePR},
        rv \in {CHOOSE r \in Reviewers : \A q \in Reviewers : Len(r) <= Len(q)},
        m \in MissingSets}
    \cup
    {[kind |-> "Push", action |-> "None", state |-> "None", number |-> 0,
      login |-> <<>>, missing |-> {}, sha |-> NoSha, base |-> NoSha]}

\* What a handler does with a delivery: it returns result at once, or it
\* runs the lifecycle operation run, awaited or spawned on the tracker.
Returned(result) == [run |-> "none", spawn |-> FALSE, result |-> result]

Awaited(op) == [run |-> op, spawn |-> FALSE, result |-> Pending]

Spawned(op) == [run |-> op, spawn |-> TRUE, result |-> Ok]

GithubParseError == Error("GithubParseError", 0)

\* StatusCode::INTERNAL_SERVER_ERROR
INTERNAL_SERVER_ERROR == 500

\* ChetterError::into_response: the status of the response for an error.
into_response(e) == [status |-> INTERNAL_SERVER_ERROR, body |-> e.kind]

\* Mutant of repo_client: a delivery without .repository.owner gets a client.
repo_client_no_owner_check(ev, posted) ==
    IF "repository" \in ev.missing THEN Err(GithubParseError)
    ELSE IF "installation" \in ev.missing THEN Err(GithubParseError)
    ELSE IF ~posted THEN Err(Error("Octocrab", 0))
    ELSE Ok

\* AppClient::repo_client: the client of the repository of the delivery.
\* posted tells whether the request for the installation token succeeded.
repo_client(ev, posted) ==
    IF "repository" \in ev.missing THEN Err(GithubParseError)
    ELSE IF "owner" \in ev.missing THEN Err(GithubParseError)
    ELSE IF "installation" \in ev.missing THEN Err(GithubParseError)
    ELSE IF ~posted THEN Err(Error("Octocrab", 0))
    ELSE Ok

\* Mutant of on_pull_request: close_pr is awaited like the other operations.
on_pull_request_await_close(payload) ==
    CASE payload.action = "Synchronize" -> Awaited("synchronize_pr")
      [] payload.action \in {"Opened", "Reopened"} -> Awaited("open_pr")
      [] payload.action = "Closed" -> Awaited("close_pr")
      [] OTHER -> Returned(Ok)

\* Mutant of on_pull_request: every operation is spawned on the tracker.
on_pull_request_spawn_all(payload) ==
    CASE payload.action = "Synchronize" -> Spawned("synchronize_pr")
      [] payload.action \in {"Opened", "Reopened"} -> Spawned("open_pr")
      [] payload.action = "Closed" -> Spawned("close_pr")
      [] OTHER -> Returned(Ok)

on_pull_request(payload) ==
    CASE payload.action = "Synchronize" -> Awaited("synchronize_pr")
      [] payload.action \in {"Opened", "Reopened"} -> Awaited("open_pr")
      [] payload.action = "Closed" -> Spawned("close_pr")
      [] OTHER -> Returned(Ok)

\* Mutant of on_pull_request_review: every submitted review is bookmarked.
on_pull_request_review_any_state(payload) ==
    IF "commit_id" \in payload.missing THEN Returned(Err(GithubParseError))
    ELSE Awaited("bookmark_pr")

on_pull_request_review(payload) ==
    IF "commit_id" \in payload.missing THEN Returned(Err(GithubParseError))
    ELSE IF payload.state \in {"Approved", "ChangesRequested"} THEN Awaited("bookmark_pr")
    ELSE Returned(Ok)

\* The body of webhook_dispatcher up to the await of the handler.
dispatch(ev, posted) ==
    IF ev.kind \notin {"PullRequest", "PullRequestReview"} THEN Returned(Ok)
    ELSE IF repo_client(ev, posted).status = "Err" THEN Returned(repo_client(ev, posted))
    ELSE IF ev.kind = "PullRequest" THEN on_pull_request(ev)
    ELSE IF "user" \in ev.missing THEN Returned(Err(GithubParseError))
    ELSE on_pull_request_review(ev)

\* Mutant of TokenRequested: the client is made for deliveries of every kind.
TokenRequested_any_kind(ev) ==
    ev.missing \cap {"repository", "owner", "installation"} = {}

\* repo_client asks for the installation token when the delivery names the
\* repository, its owner and the installation.
TokenRequested(ev) ==
    /\ ev.kind \in {"PullRequest", "PullRequestReview"}
    /\ ev.missing \cap {"repository", "owner", "installation"} = {}

\* Where a fresh invocation of op starts.
StartPc(op) ==
    CASE op = "open_pr" -> "open_pr"
      [] op = "synchronize_pr" -> "synchronize_pr_fetch"
      [] op = "bookmark_pr" -> "bookmark_pr_fetch"
      [] op = "close_pr" -> "close_pr_fetch"

\* The invocation of op for the delivery ev.
Invocation(op, ev) ==
    Fresh(op, StartPc(op), ev.number,
          IF op = "bookmark_pr" THEN ev.login ELSE <<>>,
          IF op = "close_pr" THEN NoSha ELSE ev.sha,
          IF op = "close_pr" THEN NoSha ELSE ev.base)

\* State::webhook_dispatcher receives a delivery.  It returns at once, or
\* awaits the lifecycle operation (task slot 1), or spawns it on the tracker
\* and returns.  TaskTracker::spawn spawns and tracks the task whether or not
\* the tracker has been closed.
webhook_dispatcher ==
    \E ev \in Events(nops + 1), posted \in BOOLEAN :
        LET d    == dispatch(ev, posted)
            free == {b \in BackgroundIds : task[b].pc \in {"idle", "done"}}
            slot == IF d.spawn THEN CHOOSE b \in free : \A c \in free : b <= c ELSE 1
        IN  /\ request.pc \in {"idle", "responded"}
            /\ nops < MaxOps
            /\ ~posted => (TokenRequested(ev) /\ nfail < MaxFail)
            /\ d.spawn => free # {}
            /\ request' = [pc          |-> IF d.run # "none" /\ ~d.spawn
                                           THEN "awaiting" ELSE "responded",
                           event       |-> ev,
                           client      |-> TokenRequested(ev) /\ posted,
                           response    |-> d.result,
                           spawned     |-> IF d.spawn THEN slot ELSE 0,
                           after_close |-> closing.pc # "none"]
            /\ task' = IF d.run = "none" THEN task
                       ELSE [task EXCEPT ![slot] = Invocation(d.run, ev)]
            /\ nops' = nops + 1
            /\ nfail' = IF posted THEN nfail ELSE nfail + 1
            /\ UNCHANGED <<store, tasks, closing>>

\* The awaited lifecycle operation has returned: `.await?` and Ok(()).
webhook_dispatcher_return ==
    /\ request.pc = "awaiting"
    /\ task[1].pc = "done"
    /\ request' = [request EXCEPT !.pc = "responded", !.response = task[1].result]
    /\ UNCHANGED <<store, task, nops, nfail, tasks, closing>>

\* State::close up to the await of the wait: with no tracked task it returns
\* at once and leaves the tracker open; otherwise it closes the tracker.
State_close ==
    /\ closing.pc = "none"
    /\ IF Tracked = {}
       THEN /\ closing' = [closing EXCEPT !.pc = "returned"]
            /\ UNCHANGED tasks
       ELSE /\ closing' = [closing EXCEPT !.pc = "waiting", !.outstanding = Tracked]
            /\ tasks' = [tasks EXCEPT !.closed = TRUE]
    /\ UNCHANGED <<store, task, nops, nfail, request>>

\* tasks.wait() completes: the tracker is closed and tracks no task.
State_close_wait ==
    /\ closing.pc = "waiting"
    /\ tasks.closed
    /\ Tracked = {}
    /\ closing' = [closing EXCEPT !.pc = "returned"]
    /\ UNCHANGED <<store, task, nops, nfail, tasks, request>>

\* Mutant of State_close_timeout: the wait has no timeout.
State_close_no_timeout == FALSE /\ UNCHANGED vars

\* The timeout elapses before the wait completes: the error is logged and
\* State::close returns.
State_close_timeout ==
    /\ closing.pc = "waiting"
    /\ Tracked # {}
    /\ closing' = [closing EXCEPT
           !.pc = "returned", !.timeout = TRUE,
           !.log = Append(@, "Timeout waiting for background tasks to complete")]
    /\ UNCHANGED <<store, task, nops, nfail, tasks, request>>

\* The service at the start of a behaviour: on an empty repository or on one
\* in which the fixture pull request has been opened, with no task on the
\* tracker or with the close_pr of an earlier Closed delivery just spawned.
InitDispatch ==
    /\ store \in {<<>>, FixtureStore(SnapshotNames(1))}
    /\ \E spawned \in BOOLEAN :
          task = [t \in TaskIds \cup BackgroundIds |->
                     IF spawned /\ t \in BackgroundIds
                     THEN Fresh("close_pr", StartPc("close_pr"), FixturePR, <<>>, NoSha, NoSha)
                     ELSE Idle]
    /\ nops = MaxOps - 1
    /\ nfail = 0
    /\ tasks = TaskTracker_new
    /\ request = NoRequest
    /\ closing = NotClosing

NextDispatch ==
    \/ webhook_dispatcher
    \/ webhook_dispatcher_return
    \/ State_close
    \/ State_close_wait
    \/ State_close_timeout
    \/ \E t \in TaskIds \cup BackgroundIds :
        \/ open_pr_create(t)
        \/ synchronize_pr_fetch(t)
        \/ synchronize_pr_mutate(t)
        \/ bookmark_pr_fetch(t)
        \/ bookmark_pr_mutate(t)
        \/ close_pr_fetch(t)
        \/ delete_refs_request(t)

SpecDispatch == InitDispatch /\ [][NextDispatch]_vars

\* State::close is polled until it returns: once it waits, the completion of
\* the wait and the timeout are not postponed for ever.  No assumption is made
\* on the progress of the spawned tasks.
SpecShutdown ==
    /\ InitDispatch
    /\ [][NextDispatch]_vars
    /\ WF_vars(State_close_wait)
    /\ WF_vars(State_close_timeout)

---------------------------------------------------------------------------
(* Specification SpecCloseFair: the service with a backend whose calls      *)
(* succeed and a runtime that keeps polling the spawned tasks.              *)

\* A step of a task spawned on the tracker.
BackgroundStep ==
    \E b \in BackgroundIds : close_pr_fetch(b) \/ delete_refs_request(b)

InitCloseFair ==
    /\ store \in {<<>>, FixtureStore(SnapshotNames(1))}
    /\ \E spawned \in BOOLEAN :
          task = [t \in TaskIds \cup BackgroundIds |->
                     IF spawned /\ t \in BackgroundIds
                     THEN Fresh("close_pr", StartPc("close_pr"), FixturePR, <<>>, NoSha, NoSha)
                     ELSE Idle]
    /\ nops = MaxOps - 1
    /\ nfail = MaxFail
    /\ tasks = TaskTracker_new
    /\ request = NoRequest
    /\ closing = NotClosing

SpecCloseFair ==
    /\ InitCloseFair
    /\ [][NextDispatch]_vars
    /\ WF_vars(BackgroundStep)

---------------------------------------------------------------------------
(* Specification SpecPair: two deliveries are handled at the same time, so  *)
(* that the backend calls of their two operations interleave.               *)

\* The slots of the two invocations.
PairIds == TaskIds \cup BackgroundIds

\* The first invocation takes the first slot; a slot runs one invocation.
PairStart(t) ==
    /\ task[t].pc = "idle"
    /\ \A u \in PairIds : u < t => task[u].pc # "idle"

InitPair ==
    /\ store \in {<<>>, FixtureStore(SnapshotNames(1))}
    /\ task = [t \in PairIds |-> Idle]
    /\ nops = MaxOps - 2
    /\ nfail = MaxFail - 1
    /\ tasks = TaskTracker_new
    /\ request = NoRequest
    /\ closing = NotClosing

pair_open_pr(t) == PairStart(t) /\ call_open_pr(t)

pair_synchronize_pr(t) == PairStart(t) /\ call_synchronize_pr(t)

pair_bookmark_pr(t) == PairStart(t) /\ call_bookmark_pr(t)

pair_close_pr(t) == PairStart(t) /\ call_close_pr(t)

NextPair ==
    \E t \in PairIds :
        \/ pair_open_pr(t)
        \/ open_pr_create(t)
        \/ pair_synchronize_pr(t)
        \/ synchronize_pr_fetch(t)
        \/ synchronize_pr_mutate(t)
        \/ pair_bookmark_pr(t)
        \/ bookmark_pr_fetch(t)
        \/ bookmark_pr_mutate(t)
        \/ pair_close_pr(t)
        \/ close_pr_fetch(t)
        \/ delete_refs_request(t)

SpecPair == InitPair /\ [][NextPair]_vars

---------------------------------------------------------------------------
(* Specification SpecMatch: matching_refs on repositories that hold the    *)
(* refs of the examples of its documentation, refs of pull requests and    *)
(* branches outside the namespace.                                          *)

\* Full names of the refs of those repositories.
ExampleRefs ==
    { <<"r", "e", "f", "s", "/", "h", "e", "a", "d", "s", "/", "p", "r", "/", "a", "b", "c", "/", "d", "e", "f">>,
      <<"r", "e", "f", "s", "/", "h", "e", "a", "d", "s", "/", "p", "r", "/", "a", "b", "c", "/", "d", "/", "e", "f">>,
      <<"r", "e", "f", "s", "/", "h", "e", "a", "d", "s", "/", "p", "r", "/", "a", "b", "c", "/", "d">>,
      <<"r", "e", "f", "s", "/", "h", "e", "a", "d", "s", "/", "p", "r", "/", "o", "t", "h", "e", "r", "/", "a", "b", "c", "/", "d">>,
      <<"r", "e", "f", "s", "/", "h", "e", "a", "d", "s", "/", "p", "r", "/", "a", "b">>,
      <<"r", "e", "f", "s", "/", "h", "e", "a", "d", "s", "/", "p", "r", "/", "1", "2", "/", "h", "e", "a", "d">>,
      <<"r", "e", "f", "s", "/", "h", "e", "a", "d", "s", "/", "p", "r", "/", "1", "1", "2", "/", "h", "e", "a", "d">>,
      <<"r", "e", "f", "s", "/", "h", "e", "a", "d", "s", "/", "p", "r", "/", "1", "/", "h", "e", "a", "d">>,
      <<"r", "e", "f", "s", "/", "h", "e", "a", "d", "s", "/", "1", "2", "/", "h", "e", "a", "d">>,
      <<"r", "e", "f", "s", "/", "h", "e", "a", "d", "s", "/", "m", "a", "i", "n">> }

\* The search of the documented examples, and the searches of the lifecycle
\* operations.
ExampleSearch == <<"a", "b", "c", "/", "d">>

Searches == {ExampleSearch} \cup {pr_search(pr) : pr \in PRs}

\* A branch cannot be both a ref and a directory of refs.
Coexist(names) ==
    \A a, b \in names : a # b => ~StartsWith(b, a \o Slash)

\* One call of matching_refs(search) that succeeds.
call_matching_refs(t) ==
    \E search \in Searches :
        /\ CanStart(t)
        /\ task' = [task EXCEPT ![t] =
               [Fresh("matching_refs", "done", 0, <<>>, NoSha, NoSha) EXCEPT
                   !.calls  = <<Call("matching_refs", search, NoSha, <<>>, TRUE)>>,
                   !.refs   = matching_refs(store, search),
                   !.result = Ok]]
        /\ nops' = nops + 1
        /\ UNCHANGED <<store, nfail, service>>

InitMatch ==
    /\ \E names \in {x \in SUBSET ExampleRefs : Coexist(x)} :
          store = [k \in 1..Cardinality(names) |->
                      [name |-> SetToSeq(names)[k], sha |-> FixtureSha]]
    /\ task = [t \in TaskIds |-> Idle]
    /\ nops = MaxOps - 1
    /\ nfail = MaxFail
    /\ tasks = TaskTracker_new
    /\ request = NoRequest
    /\ closing = NotClosing

NextMatch == \E t \in TaskIds : call_matching_refs(t)

SpecMatch == InitMatch /\ [][NextMatch]_vars

---------------------------------------------------------------------------
(* Vocabulary of the properties *)

\* The decimal text of the pull request numbers of the model.
PrText(pr) == IF pr = 1 THEN <<"1">> ELSE <<"1", "2">>

\* "{pr}/{suffix}"
PrName(pr, suffix) == PrText(pr) \o <<"/">> \o suffix

\* The refs of the store st that lie under refs/heads/pr/{pr}/, each as the
\* pair of its name below the namespace and its commit.
RefsUnder(st, pr) ==
    LET prefix == <<"r", "e", "f", "s", "/", "h", "e", "a", "d", "s", "/", "p", "r", "/">>
                      \o PrText(pr) \o <<"/">>
    IN  { <<SubSeq(st[k].name, 15, Len(st[k].name)), st[k].sha>> :
            k \in {j \in 1..Len(st) : /\ Len(st[j].name) >= Len(prefix)
                                      /\ SubSeq(st[j].name, 1, Len(prefix)) = prefix} }

\* The backend calls of task t that changed or tried to change a ref.
CallsOf(t, fn) == {k \in 1..Len(task[t].calls) : task[t].calls[k].fn = fn}

AllCallsOk(t) == \A k \in 1..Len(task[t].calls) : task[t].calls[k].ok

Done(t, op) == task[t].op = op /\ task[t].pc = "done"

---------------------------------------------------------------------------
(* C1 *)

\* The four calls open_pr is to issue, in order.
C1_Expected(pr, sha, base) ==
    << [name |-> PrName(pr, <<"h", "e", "a", "d">>), sha |-> sha],
       [name |-> PrName(pr, <<"h", "e", "a", "d", "-", "b", "a", "s", "e">>), sha |-> base],
       [name |-> PrName(pr, <<"v", "1">>), sha |-> sha],
       [name |-> PrName(pr, <<"v", "1", "-", "b", "a", "s", "e">>), sha |-> base] >>

\* C1: open_pr(pr, head, base) issues exactly four backend calls, all of them
\* create_ref: {pr}/head -> head, {pr}/head-base -> base, {pr}/v1 -> head,
\* {pr}/v1-base -> base.  When all four succeed it returns Ok, and when the
\* pull request had no ref at entry exactly those four refs exist afterwards.
C1_OpenCreatesFourRefs ==
    \A t \in TaskIds :
        task[t].op = "open_pr" =>
            LET T        == task[t]
                expected == C1_Expected(T.pr, T.sha, T.base)
            IN  /\ Len(T.calls) <= 4
                /\ \A k \in 1..Len(T.calls) :
                        /\ T.calls[k].fn = "create_ref"
                        /\ T.calls[k].name = expected[k].name
                        /\ T.calls[k].sha = expected[k].sha
                /\ T.pc = "done" => Len(T.calls) = 4
                /\ (T.pc = "done" /\ AllCallsOk(t)) =>
                        /\ T.result.status = "Ok"
                        /\ RefsUnder(T.store0, T.pr) = {} =>
                              RefsUnder(store, T.pr)
                                  = {<<expected[k].name, expected[k].sha>> : k \in 1..4}

\* open_pr has returned Ok for a pull request that had no ref, in a repository
\* that holds refs of another pull request.
C1_Witness ==
    \E t \in TaskIds :
        /\ Done(t, "open_pr")
        /\ task[t].result.status = "Ok"
        /\ RefsUnder(task[t].store0, task[t].pr) = {}
        /\ task[t].store0 # <<>>
        /\ Cardinality(RefsUnder(store, task[t].pr)) = 4

---------------------------------------------------------------------------
(* C10 *)

\* C10: open_pr attempts all four create_ref calls whatever the outcome of
\* the earlier ones, and returns an error exactly when one of the four failed.
C10_OpenAttemptsAll ==
    \A t \in TaskIds :
        Done(t, "open_pr") =>
            /\ Cardinality(CallsOf(t, "create_ref")) = 4
            /\ (task[t].result.status = "Err") <=> ~AllCallsOk(t)
            /\ (task[t].result.status = "Ok") <=> AllCallsOk(t)

\* open_pr has returned after its first call failed and a later one succeeded.
C10_Witness ==
    \E t \in TaskIds :
        /\ Done(t, "open_pr")
        /\ ~task[t].calls[1].ok
        /\ \E k \in 2..4 : task[t].calls[k].ok
        /\ task[t].result.status = "Err"

---------------------------------------------------------------------------
(* Version numbers, as the properties read them off a ref name *)

\* The decimal texts of the version numbers 0..MaxParsed.
DecimalTexts == {FormatNat(n) : n \in 0..MaxParsed}

\* The text that follows the last "v" of name; no text when name has no "v".
TextAfterLastV(name) ==
    {SubSeq(name, p + 1, Len(name)) :
        p \in {q \in 1..Len(name) : /\ name[q] = "v"
                                    /\ \A r \in (q + 1)..Len(name) : name[r] # "v"}}

\* The version numbers carried by the refs: for every ref whose whole text
\* after the last "v" is a decimal number, that number.
VersionsIn(refs) ==
    {CHOOSE n \in 0..MaxParsed : FormatNat(n) = txt :
        txt \in (UNION {TextAfterLastV(refs[k].full_name) : k \in 1..Len(refs)})
                    \cap DecimalTexts}

\* 1 + the largest version number carried by the refs, 1 when there is none.
NextVersionOf(refs) ==
    LET vs == VersionsIn(refs) \cup {0}
    IN  1 + (CHOOSE m \in vs : \A n \in vs : n <= m)

\* The names {pr}/v{K} and {pr}/v{K}-base.
IsVersionedName(pr, name) ==
    \E txt \in DecimalTexts :
        \/ name = PrName(pr, <<"v">> \o txt)
        \/ name = PrName(pr, <<"v">> \o txt \o <<"-", "b", "a", "s", "e">>)

FetchedNames(t) == {task[t].refs[k].full_name : k \in 1..Len(task[t].refs)}

---------------------------------------------------------------------------
(* C2 *)

\* C2: synchronize_pr(pr, head, base) calls matching_refs("{pr}/") once, and
\* then for {pr}/head (target head) and {pr}/head-base (target base) calls
\* update_ref when a ref of that name was fetched and create_ref otherwise,
\* never both for one name.
C2_SyncUpdatesOrCreatesHead ==
    \A t \in TaskIds :
        task[t].op = "synchronize_pr" =>
            LET T     == task[t]
                names == << PrName(T.pr, <<"h", "e", "a", "d">>),
                            PrName(T.pr, <<"h", "e", "a", "d", "-", "b", "a", "s", "e">>) >>
                shas  == <<T.sha, T.base>>
            IN  /\ Len(T.calls) >= 1 =>
                        /\ T.calls[1].fn = "matching_refs"
                        /\ T.calls[1].name = PrName(T.pr, <<>>)
                /\ Cardinality(CallsOf(t, "matching_refs")) <= 1
                /\ \A j \in 1..2 :
                        /\ Len(T.calls) >= j + 1 =>
                              /\ T.calls[j + 1].name = names[j]
                              /\ T.calls[j + 1].sha = shas[j]
                              /\ T.calls[j + 1].fn =
                                    IF names[j] \in FetchedNames(t)
                                    THEN "update_ref" ELSE "create_ref"
                        /\ Cardinality({k \in 1..Len(T.calls) :
                                            T.calls[k].name = names[j]}) <= 1

\* synchronize_pr has returned after updating the fetched {pr}/head and
\* creating the missing {pr}/head-base.
C2_Witness ==
    \E t \in TaskIds :
        /\ Done(t, "synchronize_pr")
        /\ Len(task[t].calls) = 5
        /\ task[t].calls[2].fn = "update_ref"
        /\ task[t].calls[3].fn = "create_ref"

---------------------------------------------------------------------------
(* C3 *)

\* C3: synchronize_pr creates exactly one new versioned pair, {pr}/v{N} -> head
\* and {pr}/v{N}-base -> base with N = max(existing versions) + 1, by create_ref
\* and never by update_ref, so that no existing {pr}/v{K} ref is moved.
C3_SyncCreatesNextVersion ==
    \A t \in TaskIds :
        task[t].op = "synchronize_pr" =>
            LET T    == task[t]
                v    == <<"v">> \o FormatNat(NextVersionOf(T.refs))
                pair == << [name |-> PrName(T.pr, v), sha |-> T.sha],
                           [name |-> PrName(T.pr, v \o <<"-", "b", "a", "s", "e">>),
                            sha |-> T.base] >>
            IN  /\ \A j \in 1..2 :
                        Len(T.calls) >= j + 3 =>
                            /\ T.calls[j + 3].fn = "create_ref"
                            /\ T.calls[j + 3].name = pair[j].name
                            /\ T.calls[j + 3].sha = pair[j].sha
                /\ \A k \in 1..Len(T.calls) :
                        IsVersionedName(T.pr, T.calls[k].name) =>
                            /\ T.calls[k].fn = "create_ref"
                            /\ k >= 4
                /\ (T.pc = "done" /\ T.calls[1].ok) => Len(T.calls) = 5
                /\ \A r \in RefsUnder(T.store0, T.pr) :
                        IsVersionedName(T.pr, r[1]) => r \in RefsUnder(store, T.pr)

\* The example: synchronize_pr on {head, head-base, v4, v4-base} has updated
\* head and head-base and created v5 and v5-base.
C3_Witness ==
    \E t \in TaskIds :
        /\ Done(t, "synchronize_pr")
        /\ FetchedNames(t) =
              { PrName(12, <<"h", "e", "a", "d">>),
                PrName(12, <<"h", "e", "a", "d", "-", "b", "a", "s", "e">>),
                PrName(12, <<"v", "4">>),
                PrName(12, <<"v", "4", "-", "b", "a", "s", "e">>) }
        /\ task[t].calls[2].fn = "update_ref"
        /\ task[t].calls[3].fn = "update_ref"
        /\ task[t].calls[4].name = PrName(12, <<"v", "5">>)
        /\ task[t].calls[5].name = PrName(12, <<"v", "5", "-", "b", "a", "s", "e">>)
        /\ <<PrName(12, <<"v", "5">>), task[t].sha>> \in RefsUnder(store, 12)
        /\ <<PrName(12, <<"v", "4">>), FixtureSha>> \in RefsUnder(store, 12)

---------------------------------------------------------------------------
(* C4 *)

\* The text in front of the version of the pair the task creates: "{pr}/v" for
\* synchronize_pr, "{pr}/{reviewer}-v" for bookmark_pr.
C4_Scope(t) ==
    IF task[t].op = "synchronize_pr"
    THEN PrName(task[t].pr, <<"v">>)
    ELSE PrName(task[t].pr, task[t].reviewer \o <<"-", "v">>)

\* C4: the version synchronize_pr and bookmark_pr compute is 1 + the largest
\* integer that follows the last "v" of a fetched ref name, over the refs whose
\* whole text after that "v" is an integer; it is 1 when nothing was fetched or
\* no ref parses.
C4_NextVersion ==
    \A t \in TaskIds :
        (task[t].op \in {"synchronize_pr", "bookmark_pr"} /\ Len(task[t].calls) >= 4) =>
            /\ task[t].calls[4].name
                  = C4_Scope(t) \o FormatNat(NextVersionOf(task[t].refs))
            /\ (task[t].refs = <<>> \/ VersionsIn(task[t].refs) = {}) =>
                  task[t].calls[4].name = C4_Scope(t) \o <<"1">>

\* The example: the fetched refs are v1, v4, v4-base and reviewer-v2, and the
\* pair synchronize_pr creates is v5.
C4_Witness ==
    \E t \in TaskIds :
        /\ task[t].op = "synchronize_pr"
        /\ Len(task[t].calls) >= 4
        /\ FetchedNames(t) =
              { PrName(12, <<"v", "1">>),
                PrName(12, <<"v", "4">>),
                PrName(12, <<"v", "4", "-", "b", "a", "s", "e">>),
                PrName(12, <<"r", "e", "v", "i", "e", "w", "e", "r", "-", "v", "2">>) }
        /\ task[t].calls[4].name = PrName(12, <<"v", "5">>)

---------------------------------------------------------------------------
(* C5 *)

\* The fetched refs of task t that are the pull request's own: {pr}/head,
\* {pr}/head-base, {pr}/v{K} and {pr}/v{K}-base.
C5_OwnRefs(t) ==
    LET own(r) ==
            \/ r.full_name = PrName(task[t].pr, <<"h", "e", "a", "d">>)
            \/ r.full_name = PrName(task[t].pr, <<"h", "e", "a", "d", "-", "b", "a", "s", "e">>)
            \/ IsVersionedName(task[t].pr, r.full_name)
    IN  SelectSeq(task[t].refs, own)

\* C5: the version synchronize_pr computes does not depend on the unrelated
\* refs of the same search ({pr}/junk, another user's {pr}/otheruser-v2): the
\* N of the pair it creates is the N it would compute without them.
C5_UnrelatedRefsIgnored ==
    \A t \in TaskIds :
        (task[t].op = "synchronize_pr" /\ Len(task[t].calls) >= 4) =>
            task[t].calls[4].name
                = PrName(task[t].pr, <<"v">> \o FormatNat(NextVersionOf(C5_OwnRefs(t))))

---------------------------------------------------------------------------
(* C6 *)

\* The largest K for which {pr}/{reviewer}-v{K} exists in st, 0 when none does.
C6_ReviewerVersion(st, pr, reviewer) ==
    LET ks == {n \in 0..MaxParsed :
                  \E r \in RefsUnder(st, pr) :
                      r[1] = PrName(pr, reviewer \o <<"-", "v">> \o FormatNat(n))} \cup {0}
    IN  CHOOSE m \in ks : \A n \in ks : n <= m

\* C6: bookmark_pr(pr, reviewer, sha, base) calls matching_refs("{pr}/{reviewer}"),
\* then update_ref on {pr}/{reviewer}-head (target sha) when that ref exists and
\* create_ref otherwise, likewise for {pr}/{reviewer}-head-base (target base),
\* and creates {pr}/{reviewer}-v{N} -> sha and {pr}/{reviewer}-v{N}-base -> base
\* with N the next version of the reviewer on the pull request.
C6_BookmarkUpdatesOrCreates ==
    \A t \in TaskIds :
        task[t].op = "bookmark_pr" =>
            LET T     == task[t]
                v     == <<"-", "v">> \o FormatNat(C6_ReviewerVersion(T.store0, T.pr, T.reviewer) + 1)
                names == << PrName(T.pr, T.reviewer \o <<"-", "h", "e", "a", "d">>),
                            PrName(T.pr, T.reviewer
                                          \o <<"-", "h", "e", "a", "d", "-", "b", "a", "s", "e">>),
                            PrName(T.pr, T.reviewer \o v),
                            PrName(T.pr, T.reviewer \o v \o <<"-", "b", "a", "s", "e">>) >>
                shas  == <<T.sha, T.base, T.sha, T.base>>
                exists(n) == \E r \in RefsUnder(T.store0, T.pr) : r[1] = n
            IN  /\ Len(T.calls) >= 1 =>
                        /\ T.calls[1].fn = "matching_refs"
                        /\ T.calls[1].name = PrName(T.pr, T.reviewer)
                /\ \A j \in 1..4 :
                        Len(T.calls) >= j + 1 =>
                            /\ T.calls[j + 1].name = names[j]
                            /\ T.calls[j + 1].sha = shas[j]
                            /\ T.calls[j + 1].fn =
                                  IF j <= 2 /\ exists(names[j])
                                  THEN "update_ref" ELSE "create_ref"

---------------------------------------------------------------------------
(* C7 *)

\* C7: the refs bookmark_pr fetches for a reviewer hold no ref of another
\* reviewer of the same pull request.
C7_BookmarkScoping ==
    \A t \in TaskIds :
        task[t].op = "bookmark_pr" =>
            \A name \in FetchedNames(t) :
                \A other \in Reviewers \ {task[t].reviewer} :
                    LET prefix == PrName(task[t].pr, other \o <<"-">>)
                    IN  ~(/\ Len(name) >= Len(prefix)
                          /\ SubSeq(name, 1, Len(prefix)) = prefix)

---------------------------------------------------------------------------
(* C8 *)

\* C8: close_pr(pr) calls matching_refs("{pr}/"), which yields every ref under
\* {pr}/, the reviewers' bookmarks included, and passes exactly these refs to
\* delete_refs; when both calls succeed it returns Ok and no ref is left under
\* {pr}/.
C8_CloseDeletesAll ==
    \A t \in TaskIds :
        task[t].op = "close_pr" =>
            LET T == task[t]
            IN  /\ Len(T.calls) >= 1 =>
                        /\ T.calls[1].fn = "matching_refs"
                        /\ T.calls[1].name = PrName(T.pr, <<>>)
                /\ Len(T.calls) >= 2 =>
                        /\ T.calls[1].ok
                        /\ T.calls[2].fn = "delete_refs"
                        /\ T.calls[2].refs = T.refs
                        /\ {<<T.refs[k].full_name, T.refs[k].sha>> : k \in 1..Len(T.refs)}
                              = RefsUnder(T.store0, T.pr)
                        /\ Len(T.refs) = Cardinality(RefsUnder(T.store0, T.pr))
                /\ Cardinality(CallsOf(t, "delete_refs")) <= 1
                /\ (T.pc = "done" /\ AllCallsOk(t)) =>
                        /\ T.result.status = "Ok"
                        /\ RefsUnder(store, T.pr) = {}

\* close_pr has returned Ok after deleting the refs of the pull request and a
\* reviewer's bookmark refs.
C8_Witness ==
    \E t \in TaskIds :
        /\ Done(t, "close_pr")
        /\ task[t].result.status = "Ok"
        /\ \E r \in RefsUnder(task[t].store0, task[t].pr) :
              r[1] = PrName(task[t].pr, <<"m", "e", "-", "v", "1">>)
        /\ RefsUnder(store, task[t].pr) = {}

---------------------------------------------------------------------------
(* C9 *)

\* The node ids in the bulk-delete request logged as call q of task t.
C9_Ids(t, q) ==
    {task[t].calls[q].refs[j].node_id : j \in 1..Len(task[t].calls[q].refs)}

\* C9: delete_refs puts every ref of its input in exactly one delete request,
\* goes on with the remaining refs after a failed request, and returns an
\* error exactly when a request failed.
C9_DeleteRefsEveryRefOnce ==
    \A t \in TaskIds :
        (task[t].op = "close_pr" /\ Len(task[t].calls) >= 2) =>
            LET T    == task[t]
                reqs == CallsOf(t, "graphql")
                all  == {T.calls[2].refs[j].node_id : j \in 1..Len(T.calls[2].refs)}
            IN  /\ \A q \in reqs :
                        /\ Cardinality(C9_Ids(t, q)) = Len(T.calls[q].refs)
                        /\ C9_Ids(t, q) \subseteq all
                        /\ \A q2 \in reqs \ {q} : C9_Ids(t, q) \cap C9_Ids(t, q2) = {}
                /\ T.pc = "done" =>
                        /\ UNION {C9_Ids(t, q) : q \in reqs} = all
                        /\ (T.result.status = "Err")
                              <=> (\E q \in reqs : ~T.calls[q].ok)

\* delete_refs has returned an error after three requests for more than 200
\* refs, the first of which failed and the last of which deleted its refs.
C9_Witness ==
    \E t \in TaskIds :
        /\ Done(t, "close_pr")
        /\ Len(task[t].refs) > 200
        /\ Len(task[t].calls) = 5
        /\ ~task[t].calls[3].ok
        /\ task[t].calls[5].ok
        /\ task[t].result.status = "Err"

---------------------------------------------------------------------------
(* C11 *)

\* The create_ref and update_ref calls of task t.
C11_Mutations(t) ==
    {k \in 1..Len(task[t].calls) : task[t].calls[k].fn \in {"create_ref", "update_ref"}}

C11_Ops == {"synchronize_pr", "bookmark_pr"}

\* C11 as stated: a returned synchronize_pr or bookmark_pr has attempted its
\* four ref mutations and has failed exactly when one of the four failed.
C11_AsStated ==
    \A t \in TaskIds :
        (task[t].op \in C11_Ops /\ task[t].pc = "done") =>
            /\ Cardinality(C11_Mutations(t)) = 4
            /\ (task[t].result.status = "Err")
                   <=> (\E k \in C11_Mutations(t) : ~task[t].calls[k].ok)

\* C11, amended: synchronize_pr and bookmark_pr first fetch the matching
\* refs.  When the fetch fails the operation returns that failure and
\* attempts no ref mutation.  When the fetch succeeds the operation attempts
\* two update-or-create calls and then two create_ref calls, whatever the
\* outcome of the others, and returns failure exactly when one of the four
\* failed.
C11_SyncBookmarkAttemptAll ==
    \A t \in TaskIds :
        (task[t].op \in C11_Ops /\ task[t].pc = "done") =>
            LET T == task[t]
            IN  /\ Len(T.calls) >= 1
                /\ T.calls[1].fn = "matching_refs"
                /\ ~T.calls[1].ok =>
                      /\ Len(T.calls) = 1
                      /\ T.result.status = "Err"
                /\ T.calls[1].ok =>
                      /\ Len(T.calls) = 5
                      /\ C11_Mutations(t) = 2..5
                      /\ T.calls[4].fn = "create_ref"
                      /\ T.calls[5].fn = "create_ref"
                      /\ (T.result.status = "Err") <=> (\E k \in 2..5 : ~T.calls[k].ok)
                      /\ (T.result.status = "Ok") <=> (\A k \in 2..5 : T.calls[k].ok)

\* A synchronize_pr and a bookmark_pr whose first mutation failed and whose
\* last mutation succeeded have returned failure.
C11_Witness ==
    \E t \in TaskIds :
        /\ task[t].op \in C11_Ops
        /\ task[t].pc = "done"
        /\ Len(task[t].calls) = 5
        /\ ~task[t].calls[2].ok
        /\ task[t].calls[5].ok
        /\ task[t].result.status = "Err"

---------------------------------------------------------------------------
(* Vocabulary of the properties of the service *)

\* The delivery r.event reached its handler: it named the repository, its
\* owner and the installation, and the installation token was obtained.
Handled(r) == r.pc # "idle" /\ r.client

IsClosed(ev) == ev.kind = "PullRequest" /\ ev.action = "Closed"

\* A delivery that webhook_dispatcher answers by awaiting a lifecycle
\* operation, and that operation.
AwaitedOp(ev) ==
    IF ev.kind = "PullRequest" /\ ev.action \in {"Opened", "Reopened"} THEN "open_pr"
    ELSE IF ev.kind = "PullRequest" /\ ev.action = "Synchronize" THEN "synchronize_pr"
    ELSE IF /\ ev.kind = "PullRequestReview"
            /\ ev.state \in {"Approved", "ChangesRequested"}
            /\ ev.missing = {}
         THEN "bookmark_pr"
    ELSE "none"

\* The required parts that the delivery ev lacks.
Lacking(ev) ==
    IF ev.kind = "PullRequest" THEN ev.missing \cap {"repository", "owner", "installation"}
    ELSE IF ev.kind = "PullRequestReview" THEN ev.missing
    ELSE {}

---------------------------------------------------------------------------
(* C12 *)

\* C12: a Closed pull-request delivery that reaches on_pull_request is
\* answered with Ok in the step that spawns close_pr on the tracker, before
\* close_pr has issued any backend call, and the answer stays Ok in every
\* later state, whatever close_pr returns.
C12_CloseIsBackground ==
    [][ (Handled(request') /\ IsClosed(request'.event)) =>
            /\ request'.pc = "responded"
            /\ request'.response = Ok
            /\ request'.spawned \in BackgroundIds
            /\ task'[request'.spawned].op = "close_pr"
            /\ task'[request'.spawned].pr = request'.event.number
            /\ request' # request =>
                  /\ task'[request'.spawned].calls = <<>>
                  /\ task'[request'.spawned].pc = "close_pr_fetch" ]_vars

\* The close_pr spawned for a Closed delivery has returned an error after the
\* delivery was answered with Ok.
C12_Witness ==
    /\ Handled(request)
    /\ IsClosed(request.event)
    /\ request.response = Ok
    /\ request.spawned \in BackgroundIds
    /\ task[request.spawned].pc = "done"
    /\ task[request.spawned].result.status = "Err"

---------------------------------------------------------------------------
(* C13 *)

\* C13: for an Opened, Reopened or Synchronize delivery and for an Approved
\* or ChangesRequested review that reach their handler, webhook_dispatcher
\* runs the lifecycle operation itself and has not returned while the
\* operation runs; when it has returned, the operation has returned and the
\* dispatcher's result is the operation's: an error, answered with a server
\* error, exactly when the operation failed.
C13_SynchronousOps ==
    (Handled(request) /\ AwaitedOp(request.event) # "none") =>
        /\ request.spawned = 0
        /\ task[1].op = AwaitedOp(request.event)
        /\ task[1].pr = request.event.number
        /\ request.pc \in {"awaiting", "responded"}
        /\ request.pc = "awaiting" => request.response = Pending
        /\ task[1].pc # "done" => request.pc = "awaiting"
        /\ request.pc = "responded" =>
              /\ task[1].pc = "done"
              /\ request.response = task[1].result
              /\ request.response.status \in {"Ok", "Err"}
              /\ request.response.status = "Err" =>
                    into_response(request.response.err).status = 500

\* The dispatcher has returned the error of an operation whose first ref
\* mutation failed and whose last one succeeded.
C13_Witness ==
    /\ Handled(request)
    /\ AwaitedOp(request.event) # "none"
    /\ request.pc = "responded"
    /\ request.response.status = "Err"
    /\ task[1].pc = "done"
    /\ task[1].calls[Len(task[1].calls)].ok

---------------------------------------------------------------------------
(* C14 *)

\* C14: a delivery dispatched after State::close was called starts no task
\* on the tracker; and when State::close returns without a timeout, no task
\* that was outstanding at the call is still running.
C14_GracefulShutdown ==
    [][ /\ request'.after_close => request'.spawned = 0
        /\ (closing.pc = "waiting" /\ closing'.pc = "returned" /\ ~closing'.timeout) =>
              \A b \in closing.outstanding : task[b].pc = "done" ]_vars

---------------------------------------------------------------------------
(* C15 *)

\* C15: State::close, once called, returns: at once when the tracker tracks
\* nothing, otherwise when every tracked task has finished or when the
\* timeout elapses, also when a spawned close_pr never finishes.  It returns
\* on a timeout only while a task is still tracked, and then it has logged
\* the error; State::close has no failure result.
C15_CloseTerminates ==
    /\ [][ (closing.pc # "returned" /\ closing'.pc = "returned") =>
              /\ closing'.timeout => (Tracked # {} /\ closing'.log # <<>>)
              /\ ~closing'.timeout => (Tracked = {} /\ closing'.log = <<>>) ]_vars
    /\ (closing.pc = "waiting") ~> (closing.pc = "returned")

\* State::close has returned on the timeout while a spawned close_pr that
\* was outstanding at the call has still not returned.
C15_Witness ==
    /\ closing.pc = "returned"
    /\ closing.timeout
    /\ \E b \in closing.outstanding : task[b].pc \notin {"idle", "done"}

---------------------------------------------------------------------------
(* C16 *)

\* A complete review delivery whose state the engine does not handle.
C16_IgnoredReview(r) ==
    /\ Handled(r)
    /\ r.event.kind = "PullRequestReview"
    /\ r.event.state \notin {"Approved", "ChangesRequested"}
    /\ r.event.missing = {}

\* C16: a review delivery whose state is neither Approved nor
\* ChangesRequested is answered with Ok at once; the delivery starts no
\* lifecycle operation, awaited or spawned, and so issues no backend call.
C16_OtherReviewsIgnored ==
    [][ C16_IgnoredReview(request') =>
            /\ request'.pc = "responded"
            /\ request'.response = Ok
            /\ request'.spawned = 0
            /\ task'[1] = task[1]
            /\ request' # request => (task' = task /\ store' = store) ]_vars

\* A review that only comments has been answered, on a repository holding
\* refs of its pull request.
C16_Witness ==
    /\ C16_IgnoredReview(request)
    /\ request.event.state = "Commented"
    /\ request.pc = "responded"
    /\ RefsUnder(store, request.event.number) # {}

---------------------------------------------------------------------------
(* C17 *)

\* A pull-request or review delivery lacking a required part, for which no
\* request for the installation token has failed.
C17_Incomplete(r) ==
    /\ r.pc # "idle"
    /\ Lacking(r.event) # {}
    /\ (r.event.missing \cap {"repository", "owner", "installation"} = {}) => r.client

\* C17: a pull-request or review delivery that lacks the repository, its
\* owner, the installation, the reviewer or the review commit is answered
\* with Err(GithubParseError) at once; the delivery starts no lifecycle
\* operation and changes no ref.
C17_IncompleteIsParseError ==
    [][ C17_Incomplete(request') =>
            /\ request'.pc = "responded"
            /\ request'.response = Err(GithubParseError)
            /\ request'.spawned = 0
            /\ task'[1] = task[1]
            /\ request' # request => (task' = task /\ store' = store) ]_vars

\* An approving review without review commit has been answered, the
\* installation token having been obtained.
C17_Witness ==
    /\ C17_Incomplete(request)
    /\ request.response = Err(GithubParseError)
    /\ request.event.kind = "PullRequestReview"
    /\ request.event.state = "Approved"
    /\ request.event.missing = {"commit_id"}
    /\ request.client

---------------------------------------------------------------------------
(* C18 *)

\* The names matching_refs has returned to task t.
C18_Returned(t) == {task[t].refs[k].full_name : k \in 1..Len(task[t].refs)}

\* The refs below the namespace that the repository held at the call.
C18_Held(t) ==
    {SubSeq(n, Len(REF_NS) + 2, Len(n)) :
        n \in {m \in StoreNames(task[t].store0) : StartsWith(m, REF_NS \o Slash)}}

\* C18: matching_refs("abc/d") returns abc/def, abc/d/ef and abc/d, each
\* exactly when the repository holds it under the namespace, and returns
\* neither other/abc/d nor ab.
C18_DocumentedExamples ==
    \A t \in TaskIds :
        (Done(t, "matching_refs") /\ task[t].calls[1].name = ExampleSearch) =>
            /\ \A n \in { <<"a", "b", "c", "/", "d", "e", "f">>,
                          <<"a", "b", "c", "/", "d", "/", "e", "f">>,
                          <<"a", "b", "c", "/", "d">> } :
                   n \in C18_Returned(t) <=> n \in C18_Held(t)
            /\ <<"o", "t", "h", "e", "r", "/", "a", "b", "c", "/", "d">> \notin C18_Returned(t)
            /\ <<"a", "b">> \notin C18_Returned(t)

\* matching_refs("abc/d") has returned abc/def and abc/d on a repository that
\* also holds other/abc/d and ab.
C18_Witness ==
    \E t \in TaskIds :
        /\ Done(t, "matching_refs")
        /\ task[t].calls[1].name = ExampleSearch
        /\ C18_Returned(t) = { <<"a", "b", "c", "/", "d", "e", "f">>, <<"a", "b", "c", "/", "d">> }
        /\ <<"o", "t", "h", "e", "r", "/", "a", "b", "c", "/", "d">> \in C18_Held(t)
        /\ <<"a", "b">> \in C18_Held(t)

---------------------------------------------------------------------------
(* C19 *)

\* A call matching_refs("<pr>/") that has returned.
C19_PrSearch(t) ==
    /\ Done(t, "matching_refs")
    /\ \E pr \in PRs : task[t].calls[1].name = pr_search(pr)

---------------------------------------------------------------------------
(* C20 *)

\* The current-pointer names of the invocation T.
C20_CurrentPointers(T) ==
    IF T.op = "synchronize_pr"
    THEN {PrName(T.pr, <<"h", "e", "a", "d">>),
          PrName(T.pr, <<"h", "e", "a", "d", "-", "b", "a", "s", "e">>)}
    ELSE IF T.op = "bookmark_pr"
    THEN {PrName(T.pr, T.reviewer \o <<"-", "h", "e", "a", "d">>),
          PrName(T.pr, T.reviewer \o <<"-", "h", "e", "a", "d", "-", "b", "a", "s", "e">>)}
    ELSE {}

\* The calls of an invocation are as the claim allows.
C20_CallsAllowed(T) ==
    \A k \in 1..Len(T.calls) :
        /\ T.calls[k].fn \in {"matching_refs", "create_ref", "update_ref",
                              "delete_refs", "graphql"}
        /\ T.calls[k].fn \in {"delete_refs", "graphql"} => T.op = "close_pr"
        /\ T.calls[k].fn = "update_ref" => T.calls[k].name \in C20_CurrentPointers(T)

\* C20: in every step of every behaviour the calls issued so far are
\* matching_refs, create_ref, update_ref and the deletion calls (there is no
\* rename); deletion calls are issued by close_pr only; update_ref is issued
\* only for {pr}/head, {pr}/head-base, {pr}/{reviewer}-head and
\* {pr}/{reviewer}-head-base; and a ref leaves the repository only in a step
\* of a close_pr.
C20_OnlyCloseDeletes ==
    [][ /\ \A t \in DOMAIN task : C20_CallsAllowed(task'[t])
        /\ (StoreNames(store) \ StoreNames(store') # {}) =>
              \E t \in DOMAIN task :
                  /\ task[t].op = "close_pr"
                  /\ task'[t] # task[t]
                  /\ task'[t].calls[Len(task'[t].calls)].fn = "graphql" ]_vars

\* A bookmark_pr has moved the reviewer's current pointers with update_ref.
C20_Witness ==
    \E t \in TaskIds :
        /\ Done(t, "bookmark_pr")
        /\ Len(task[t].calls) = 5
        /\ task[t].calls[2].fn = "update_ref"
        /\ task[t].calls[2].ok
        /\ task[t].calls[3].fn = "update_ref"
        /\ task[t].calls[3].ok

---------------------------------------------------------------------------
(* C22 *)

\* The version numbers K of the refs {pr}/{scope}v{K} that the store st holds,
\* where scope is empty (the pull request) or "{reviewer}-".
C22_Existing(st, pr, scope) ==
    {K \in 0..MaxParsed :
        FullRef(PrName(pr, scope \o <<"v">> \o FormatNat(K))) \in StoreNames(st)}

\* The versioned create_ref of the invocation T names version N of the scope.
C22_Creates(T, scope, N) ==
    /\ T.calls[4].fn = "create_ref"
    /\ T.calls[4].name = PrName(T.pr, scope \o <<"v">> \o FormatNat(N))

\* C22: the version N of the {pr}/v{N} that a synchronize_pr creates is
\* greater than the K of every {pr}/v{K} that existed when it ran, and the
\* version N of the {pr}/{reviewer}-v{N} that a bookmark_pr creates is greater
\* than the K of every {pr}/{reviewer}-v{K} that existed when it ran.
C22_VersionsIncrease ==
    \A t \in TaskIds :
        LET T     == task[t]
            scope == IF T.op = "bookmark_pr" THEN T.reviewer \o <<"-">> ELSE <<>>
        IN  (T.op \in {"synchronize_pr", "bookmark_pr"} /\ Len(T.calls) >= 4) =>
                \E N \in 1..(MaxParsed + 1) :
                    /\ C22_Creates(T, scope, N)
                    /\ \A K \in C22_Existing(T.store0, T.pr, scope) : N > K

\* A reviewer's second bookmark has created version 2 after version 1.
C22_Witness ==
    \E t \in TaskIds :
        /\ Done(t, "bookmark_pr")
        /\ Len(task[t].calls) = 5
        /\ C22_Existing(task[t].store0, task[t].pr, task[t].reviewer \o <<"-">>) = {1}
        /\ C22_Creates(task[t], task[t].reviewer \o <<"-">>, 2)
        /\ task[t].calls[4].ok

---------------------------------------------------------------------------
(* C23 *)

\* C23: within one invocation no backend call is issued twice: there is at
\* most one matching_refs call and one delete_refs call, no ref name is the
\* argument of two create_ref / update_ref calls, and no ref goes into two
\* bulk-delete requests; a failed call is not followed by a second attempt.
C23_NoRetry ==
    \A t \in DOMAIN task :
        LET T == task[t]
        IN  /\ Cardinality({k \in 1..Len(T.calls) : T.calls[k].fn = "matching_refs"}) <= 1
            /\ Cardinality({k \in 1..Len(T.calls) : T.calls[k].fn = "delete_refs"}) <= 1
            /\ \A j, k \in 1..Len(T.calls) :
                  (/\ j < k
                   /\ T.calls[j].fn \in {"create_ref", "update_ref"}
                   /\ T.calls[k].fn \in {"create_ref", "update_ref"}) =>
                      T.calls[j].name # T.calls[k].name
            /\ \A j, k \in 1..Len(T.calls) :
                  (j < k /\ T.calls[j].fn = "graphql" /\ T.calls[k].fn = "graphql") =>
                      Range(T.calls[j].refs) \cap Range(T.calls[k].refs) = {}
            /\ T.op = "open_pr" => Len(T.calls) <= 4
            /\ T.op \in {"synchronize_pr", "bookmark_pr"} => Len(T.calls) <= 5

\* A close_pr has returned after its only bulk-delete request failed, and
\* the refs of the pull request are still there.
C23_Witness ==
    \E t \in TaskIds :
        /\ Done(t, "close_pr")
        /\ Cardinality(CallsOf(t, "graphql")) = 1
        /\ \E k \in CallsOf(t, "graphql") : ~task[t].calls[k].ok
        /\ RefsUnder(store, task[t].pr) # {}
        /\ task[t].result.status = "Err"

---------------------------------------------------------------------------
(* C24 *)

\* C24: a synchronize_pr that fetches no ref issues, after the fetch, the
\* four calls of open_pr with the same pull request and commits, in the same
\* order: create_ref of {pr}/head, {pr}/head-base, {pr}/v1 and {pr}/v1-base.
\* When the four succeed, the refs of the pull request are those that open_pr
\* leaves.
C24_SyncOnEmptyIsOpen ==
    \A t \in TaskIds :
        LET T == task[t]
        IN  (/\ T.op = "synchronize_pr"
             /\ Len(T.calls) >= 1
             /\ T.calls[1].ok
             /\ T.refs = <<>>) =>
                /\ \A k \in 2..Len(T.calls) :
                      /\ T.calls[k].fn = open_pr_call(T.pr, T.sha, T.base, k - 1).fn
                      /\ T.calls[k].name = open_pr_call(T.pr, T.sha, T.base, k - 1).name
                      /\ T.calls[k].sha = open_pr_call(T.pr, T.sha, T.base, k - 1).sha
                      /\ T.calls[k].fn = "create_ref"
                      /\ T.calls[k].name = C1_Expected(T.pr, T.sha, T.base)[k - 1].name
                /\ (T.pc = "done" /\ AllCallsOk(t)) =>
                      /\ Len(T.calls) = 5
                      /\ T.result.status = "Ok"
                      /\ RefsUnder(store, T.pr)
                             = {<<C1_Expected(T.pr, T.sha, T.base)[k].name,
                                  C1_Expected(T.pr, T.sha, T.base)[k].sha>> : k \in 1..4}

\* A synchronize_pr on a pull request without refs has returned Ok in a
\* repository that holds refs of another pull request.
C24_Witness ==
    \E t \in TaskIds :
        /\ Done(t, "synchronize_pr")
        /\ task[t].refs = <<>>
        /\ task[t].store0 # <<>>
        /\ AllCallsOk(t)
        /\ Cardinality(RefsUnder(store, task[t].pr)) = 4

---------------------------------------------------------------------------
(* C25 *)

\* The j-th consecutive chunk of at most 100 of the refs.
C25_Chunk(refs, j) ==
    SubSeq(refs, 100 * (j - 1) + 1, IF 100 * j < Len(refs) THEN 100 * j ELSE Len(refs))

\* C25: the j-th bulk-delete request of delete_refs carries the j-th
\* consecutive chunk of at most 100 of its refs, whatever the outcome of the
\* requests before it; delete_refs returns after exactly ceil(N / 100)
\* requests for N refs, and for no ref it sends no request and returns Ok.
C25_ChunkedDelete ==
    \A t \in TaskIds :
        LET T == task[t]
            N == Len(T.refs)
            G == CallsOf(t, "graphql")
        IN  (T.op = "close_pr" /\ Len(T.calls) >= 2) =>
                /\ T.calls[2].fn = "delete_refs"
                /\ T.calls[2].refs = T.refs
                /\ G = 3..Len(T.calls)
                /\ \A k \in G :
                      /\ T.calls[k].refs = C25_Chunk(T.refs, k - 2)
                      /\ Len(T.calls[k].refs) \in 1..100
                /\ Cardinality(G) <= (N + 99) \div 100
                /\ T.pc = "done" <=> Cardinality(G) = (N + 99) \div 100
                /\ (T.pc = "done" /\ N = 0) => T.result = Ok

\* delete_refs has returned after two requests for exactly 200 refs, the
\* first of which failed.
C25_Witness ==
    \E t \in TaskIds :
        /\ Done(t, "close_pr")
        /\ Len(task[t].refs) = 200
        /\ Len(task[t].calls) = 4
        /\ ~task[t].calls[3].ok
        /\ task[t].calls[4].ok

---------------------------------------------------------------------------
(* C27 *)

\* C27: a synchronize_pr, bookmark_pr or close_pr whose matching_refs call
\* failed has returned that error, has issued no other call, and has left
\* the ref store as it was.
C27_FetchFailureReturns ==
    \A t \in TaskIds :
        LET T == task[t]
        IN  (/\ T.op \in {"synchronize_pr", "bookmark_pr", "close_pr"}
             /\ Len(T.calls) >= 1
             /\ ~T.calls[1].ok) =>
                /\ T.calls[1].fn = "matching_refs"
                /\ Len(T.calls) = 1
                /\ T.pc = "done"
                /\ T.result = Err(Error("Octocrab", 1))
                /\ store = T.store0

\* A close_pr whose fetch failed has returned, and the refs of the pull
\* request are still there.
C27_Witness ==
    \E t \in TaskIds :
        /\ Done(t, "close_pr")
        /\ Len(task[t].calls) = 1
        /\ ~task[t].calls[1].ok
        /\ RefsUnder(store, task[t].pr) # {}

---------------------------------------------------------------------------
(* C26 *)

\* The pull-request actions the engine handles.
C26_HandledActions == {"Opened", "Reopened", "Synchronize", "Closed"}

\* The delivery of r was answered with Ok without an operation being run or
\* spawned; d tells whether r is the delivery of this step.
C26_NoOp(r, d) ==
    /\ r.pc = "responded"
    /\ r.response = Ok
    /\ r.spawned = 0
    /\ task'[1] = task[1]
    /\ d => (task' = task /\ store' = store)

\* C26: a delivery that is neither a pull-request nor a review event is
\* answered with Ok, starts and spawns nothing, touches no ref, and no
\* installation token is requested for it; a pull-request delivery with
\* another action than Opened, Reopened, Synchronize and Closed that reaches
\* on_pull_request is answered with Ok, starts and spawns nothing and touches
\* no ref.
C26_OtherEventsIgnored ==
    [][ /\ (request'.pc # "idle"
              /\ request'.event.kind \notin {"PullRequest", "PullRequestReview"}) =>
              /\ C26_NoOp(request', request' # request)
              /\ ~request'.client
              /\ request' # request => nfail' = nfail
        /\ (Handled(request')
              /\ request'.event.kind = "PullRequest"
              /\ request'.event.action \notin C26_HandledActions) =>
              C26_NoOp(request', request' # request) ]_vars

\* A delivery of another kind has been answered on a repository that holds
\* refs.
C26_Witness ==
    /\ request.pc = "responded"
    /\ request.event.kind = "Push"
    /\ request.response = Ok
    /\ store # <<>>

---------------------------------------------------------------------------
(* C28 *)

\* A Closed delivery has been dispatched and its close_pr spawned.
C28_Dispatched ==
    /\ Handled(request)
    /\ IsClosed(request.event)
    /\ request.spawned \in BackgroundIds

\* The close_pr spawned for the delivery has returned Ok, every ref it
\* fetched is gone, the pull request has no ref and the tracker is empty.
C28_Finished ==
    /\ C28_Dispatched
    /\ LET T == task[request.spawned]
       IN  /\ T.op = "close_pr"
           /\ T.pr = request.event.number
           /\ T.pc = "done"
           /\ T.result = Ok
           /\ \A k \in 1..Len(T.refs) : T.refs[k].node_id \notin StoreNames(store)
           /\ RefsUnder(store, T.pr) = {}
    /\ Tracked = {}

\* C28: with a backend whose calls succeed and a runtime that keeps running
\* the spawned task, a dispatched Closed delivery leads to a state in which
\* its close_pr has returned, every ref it fetched under {pr}/ has been
\* deleted and the tracker is empty.
C28_CloseCompletes == C28_Dispatched ~> C28_Finished

\* The close_pr of a Closed delivery has deleted the four refs of the pull
\* request and returned.
C28_Witness ==
    /\ C28_Finished
    /\ Len(task[request.spawned].refs) = 4

---------------------------------------------------------------------------
(* C30 *)

\* C30: when the close_pr of a Closed delivery and the open_pr of a later
\* Reopened delivery for the same pull request have both returned, and no
\* request failed in transport, the pull request has exactly the refs
\* {pr}/head, {pr}/head-base, {pr}/v1 and {pr}/v1-base, pointing at the
\* commits of the Reopened delivery.
C30_ReopenAfterClose ==
    \A b \in BackgroundIds :
        (/\ Handled(request)
         /\ request.event.kind = "PullRequest"
         /\ request.event.action = "Reopened"
         /\ request.pc = "responded"
         /\ task[b].op = "close_pr"
         /\ task[b].pr = request.event.number
         /\ task[b].pc = "done"
         /\ nfail = 0) =>
            RefsUnder(store, request.event.number)
                = {<<C1_Expected(request.event.number, request.event.sha,
                                 request.event.base)[k].name,
                     C1_Expected(request.event.number, request.event.sha,
                                 request.event.base)[k].sha>> : k \in 1..4}

---------------------------------------------------------------------------
(* C21 *)

\* The ref store that the successful calls of one invocation, taken alone,
\* make of the store st.
RECURSIVE C21_Replay(_, _)
C21_Replay(st, calls) ==
    IF calls = <<>> THEN st
    ELSE LET c    == calls[Len(calls)]
             prev == C21_Replay(st, SubSeq(calls, 1, Len(calls) - 1))
         IN  IF ~c.ok THEN prev
             ELSE IF c.fn = "create_ref" THEN create_ref_effect(prev, c.name, c.sha)
             ELSE IF c.fn = "update_ref" THEN update_ref_effect(prev, c.name, c.sha)
             ELSE IF c.fn = "graphql" THEN delete_chunk_effect(prev, c.refs)
             ELSE prev

\* The invocation in slot t runs while no invocation for the same pull
\* request runs or has run in the other slot.
C21_Apart(t) ==
    /\ task[t].op # "none"
    /\ \A u \in PairIds \ {t} : task[u].pr # task[t].pr

\* C21: an operation on a pull request p that interleaves in any way with
\* an operation on another pull request names only refs under p/ in its
\* create_ref, update_ref and bulk-delete calls; it fetches what it would
\* have fetched from the repository as it was at its start, its calls are
\* accepted as they would have been had it run alone from there, and the
\* refs under p/ are at every moment those that its own successful calls
\* have made of the refs under p/ at its start.
C21_DifferentPRsIndependent ==
    \A t \in PairIds :
        C21_Apart(t) =>
            LET T      == task[t]
                prefix == PrText(T.pr) \o <<"/">>
            IN  /\ \A k \in 1..Len(T.calls) :
                      /\ T.calls[k].fn \in {"create_ref", "update_ref"} =>
                            StartsWith(T.calls[k].name, prefix)
                      /\ T.calls[k].fn \in {"graphql", "delete_refs"} =>
                            \A j \in 1..Len(T.calls[k].refs) :
                                StartsWith(T.calls[k].refs[j].full_name, prefix)
                      /\ (T.calls[k].fn = "create_ref" /\ T.calls[k].ok) =>
                            create_ref_accepts(
                                C21_Replay(T.store0, SubSeq(T.calls, 1, k - 1)),
                                T.calls[k].name)
                      /\ (T.calls[k].fn = "update_ref" /\ T.calls[k].ok) =>
                            update_ref_accepts(
                                C21_Replay(T.store0, SubSeq(T.calls, 1, k - 1)),
                                T.calls[k].name)
                /\ (Len(T.calls) >= 1 /\ T.calls[1].fn = "matching_refs" /\ T.calls[1].ok) =>
                      T.refs = matching_refs(T.store0, T.calls[1].name)
                /\ RefsUnder(store, T.pr) = RefsUnder(C21_Replay(T.store0, T.calls), T.pr)

\* A synchronize_pr of one pull request and a close_pr of another one, which
\* had refs, have both returned, and the other invocation started and ended
\* while the first one was running.
C21_Witness ==
    \E t, u \in PairIds :
        /\ t # u
        /\ C21_Apart(t)
        /\ Done(t, "synchronize_pr")
        /\ Done(u, "close_pr")
        /\ Len(task[u].refs) = 4
        /\ AllCallsOk(u)
        /\ task[u].store0 # task[t].store0
        /\ RefsUnder(store, task[u].pr) = {}
        /\ Cardinality(RefsUnder(store, task[t].pr)) = 4

---------------------------------------------------------------------------
(* C29 *)

\* The pairs of head and base commit that belong together: those of the two
\* synchronize events, and the pair the repository started with.
C29_Events ==
    {<<task[t].sha, task[t].base>> : t \in PairIds} \cup {<<FixtureSha, FixtureSha>>}

\* The refs {pr}/{name} and {pr}/{name}-base, when the store holds both, point
\* at the head and the base commit of one event.
C29_Consistent(pr, name) ==
    \A x, y \in RefsUnder(store, pr) :
        (/\ x[1] = PrName(pr, name)
         /\ y[1] = PrName(pr, name \o <<"-", "b", "a", "s", "e">>)) =>
            <<x[2], y[2]>> \in C29_Events

\* No call has failed on an outage: InitPair starts the count of such
\* failures at MaxFail - 1.  A create_ref that GitHub rejects because the
\* ref exists is not counted.
C29_NoOutage == nfail = MaxFail - 1

\* C29: while two synchronize_pr for the same pull request interleave, every
\* pair {pr}/v{N}, {pr}/v{N}-base that exists points at the head and the base
\* commit of one synchronize event, and so do {pr}/head and {pr}/head-base
\* once both operations have returned (GitHub answering every call).
C29_SnapshotsConsistent ==
    \A t, u \in PairIds :
        (/\ C29_NoOutage
         /\ t # u
         /\ task[t].op = "synchronize_pr"
         /\ task[u].op = "synchronize_pr"
         /\ task[t].pr = task[u].pr) =>
            /\ \A N \in 1..3 : C29_Consistent(task[t].pr, <<"v">> \o FormatNat(N))
            /\ (task[t].pc = "done" /\ task[u].pc = "done") =>
                  C29_Consistent(task[t].pr, <<"h", "e", "a", "d">>)

---------------------------------------------------------------------------
(* C31 *)

\* The four refs open_pr creates for the pull request pr.
C31_Names(pr) ==
    { PrName(pr, <<"h", "e", "a", "d">>),
      PrName(pr, <<"h", "e", "a", "d", "-", "b", "a", "s", "e">>),
      PrName(pr, <<"v", "1">>),
      PrName(pr, <<"v", "1", "-", "b", "a", "s", "e">>) }

\* The invocation in slot t is an open_pr that found head, head-base, v1 and
\* v1-base of its pull request in the repository.
C31_AllExist(t) ==
    /\ task[t].op = "open_pr"
    /\ \A n \in C31_Names(task[t].pr) : FullRef(n) \in StoreNames(task[t].store0)

\* C31: an open_pr for a pull request whose refs head, head-base, v1 and
\* v1-base exist leaves the repository, names and commits, as it found it
\* after each of its calls, every create_ref it issues is refused, and it
\* returns failure.
C31_OpenOnExistingFails ==
    \A t \in TaskIds :
        C31_AllExist(t) =>
            /\ store = task[t].store0
            /\ \A k \in 1..Len(task[t].calls) :
                  /\ task[t].calls[k].fn = "create_ref"
                  /\ ~task[t].calls[k].ok
            /\ task[t].pc = "done" =>
                  /\ Len(task[t].calls) = 4
                  /\ task[t].result.status = "Err"

\* A second open_pr for a pull request, with other commits than the first,
\* has returned.
C31_Witness ==
    \E t \in TaskIds :
        /\ C31_AllExist(t)
        /\ Done(t, "open_pr")
        /\ \A n \in C31_Names(task[t].pr) :
              \E k \in 1..Len(store) :
                  /\ store[k].name = FullRef(n)
                  /\ store[k].sha \notin {task[t].sha, task[t].base}

---------------------------------------------------------------------------
(* C32 *)

\* The positions, in the invocation's sequence of calls, of the failed
\* sub-operations: create_ref, update_ref and bulk-delete requests.
C32_Failed(t) ==
    {k \in 1..Len(task[t].calls) :
        /\ task[t].calls[k].fn \in {"create_ref", "update_ref", "graphql"}
        /\ ~task[t].calls[k].ok}

C32_Max(S) == CHOOSE k \in S : \A j \in S : j <= k

\* C32: the errors an open_pr, synchronize_pr, bookmark_pr or the
\* delete_refs of a close_pr has collected are those of its failed
\* sub-operations, one each, in the order of the attempts; when at least one
\* failed, the operation returns the error of the failed attempt that came
\* last, and the errors of the earlier ones appear nowhere in the result.
C32_LastErrorReturned ==
    \A t \in TaskIds :
        LET T == task[t]
            F == C32_Failed(t)
        IN  /\ Len(T.errors) = Cardinality(F)
            /\ {T.errors[j].at : j \in 1..Len(T.errors)} = F
            /\ \A j, k \in 1..Len(T.errors) : j < k => T.errors[j].at < T.errors[k].at
            /\ (T.pc = "done" /\ F # {}) =>
                  /\ T.result.status = "Err"
                  /\ T.result.err = T.errors[Len(T.errors)]
                  /\ T.result.err.at = C32_Max(F)

\* A close_pr has returned whose delete_refs sent three requests: the first
\* failed in transport, the second was answered with GraphQL errors, the
\* third deleted its refs.
C32_Witness ==
    \E t \in TaskIds :
        /\ Done(t, "close_pr")
        /\ Len(task[t].calls) = 5
        /\ C32_Failed(t) = {3, 4}
        /\ task[t].errors[1].kind = "Octocrab"
        /\ task[t].errors[2].kind = "GithubGraphqlError"
        /\ task[t].calls[5].ok
        /\ task[t].result = Err(Error("GithubGraphqlError", 4))

====
